---- MODULE Spec2Model ----
(***************************************************************************)
(* A model of StockTracker's price-acquisition and threshold-evaluation    *)
(* pipeline: WebScraper (web_scraper.py), StockFetcher (stock_fetcher.py), *)
(* ThresholdChecker (threshold_checker.py), EmailNotifier                  *)
(* (email_notifier.py) and the check cycle of StockTracker (main.py).      *)
(*                                                                         *)
(* Conventions.                                                            *)
(*  - Python's Optional[x] is a sequence of length 0 or 1: None is << >>   *)
(*    and a present value x is << x >>.                                    *)
(*  - A text is a sequence of one-character strings.                       *)
(*  - The float that float() returns for a decimal numeral is the exact    *)
(*    decimal [m, e] (value m / 10^e) in lowest form; binary rounding is   *)
(*    not modelled.                                                        *)
(*  - Prices and thresholds of the fetcher and the checker are integers    *)
(*    (a fixed-point reading of the float).                                *)
(***************************************************************************)
EXTENDS Integers, Sequences, FiniteSets, TLC

VARIABLES
    \* WebScraper._extract_price, one call
    text,          \* the argument
    extractDone,   \* whether the call has returned
    extracted,     \* what it returned: Optional decimal
    textGiven,     \* FALSE when the argument is None instead of a text
    extractExc,    \* the exception that left the call, "" if none
    \* one call of a get_price_from_* function
    site,          \* which of the three functions: a source name
    siteResponse,  \* what the site answers
    siteDone,      \* whether the call has ended
    siteOutcome,   \* how it ended: an outcome [exc, val]
    \* WebScraper.get_stock_price, one call
    spc,           \* position of the call: "idle", "loop", "returned"
    sourcesArg,    \* the sources argument: None or a list
    sources,       \* the sources list the loop iterates
    sidx,          \* index of the source the loop is at
    contacted,     \* the calls to get_price_from_* so far, in order
    sresult,       \* what it returned: Optional decimal
    \* StockFetcher: the object, and one get_stock_price call
    use_web_scraping,  \* self.use_web_scraping
    web_scraper,       \* whether self.web_scraper is an object (not None)
    fpc,           \* position of the call: "idle", "scrape", "loop", "period",
                   \* "info", "nodata", "error", "returned", "raised"
    fsymbol,       \* the symbol argument
    retry_count,   \* the retry_count argument
    attempt,       \* the loop variable of "for attempt in range(retry_count)"
    period,        \* index in Periods of the window the inner loop is at
    windows,       \* the windows queried in the current attempt, in order
    infoRead,      \* whether ticker.info was read in the current attempt
    tickerInfo,    \* what that read of ticker.info gave: Optional info
    sleeps,        \* the arguments of the time.sleep calls so far, in order
    scraperCalled, \* whether WebScraper.get_stock_price ran in this call
    scraped,       \* what that call returned: << >> before it, then << Optional price >>
    quoteGiven,    \* the last price the quote API delivered: Optional price
    fresult,       \* what the call returned: Optional price
    fexc,          \* the exception that left the call, "" if none
    \* StockFetcher.get_multiple_prices, one call
    bpc,           \* position: "idle", "fetch", "wait", "returned", "raised"
    symbols,       \* the symbols argument
    bidx,          \* index of the symbol the loop is at
    bprices,       \* the prices dict built so far
    delays,        \* the arguments of the pacing time.sleep calls so far
    fetched,       \* what each get_stock_price call of the loop returned, in order
    timeline,      \* the fetches started and finished and the pacing sleeps of
                   \* the call so far, in order
    earlier,       \* the dict the previous get_multiple_prices call returned
    \* ThresholdChecker: the object, and one check_thresholds call
    stocks,        \* self.stocks
    prices,        \* the prices argument
    checked,       \* whether the call has returned
    violations,    \* what it returned
    calls,         \* the check_thresholds calls so far: [stocks, prices, result]
                   \* (kept by the specification of repeated calls only)
    \* EmailNotifier: the object, and one send_alert / send_daily_summary call
    notifier,      \* smtp_port, sender_email, sender_password, recipient_email
    nmethod,       \* the method called, "" before the call
    nitems,        \* the list passed (violations or stocks_data)
    noutcome,      \* how the call ended, None before the call
    ndelivery,     \* what building and sending the message did in this call
    \* StockTracker: the object, and one check_stocks cycle
    configFile,    \* what config/stocks.json holds when the tracker is built
    cpc,           \* position: "new", "idle", "fetching", "cached", "done",
                   \* "raised"
    last_prices,   \* self.last_prices
    alerted,       \* how the send_alert call of the cycle ended, None if none
    alertArgs,     \* the lists the cycle has passed to send_alert, in order
    \* StockTracker: one send_daily_summary call
    dpc,           \* position: "idle", "read"
    sprices,       \* the local prices of the call (line 86)
    summaryCalls,  \* the EmailNotifier.send_daily_summary calls of the latest
                   \* call, in order: [stocks_data, outcome]
    \* the two summaries of one price map
    displayed,     \* the lines _display_price_summary printed: Optional list
    htmlLines      \* the lines of _build_summary_html: Optional list

extractVars == << text, extractDone, extracted, textGiven, extractExc >>
sourceVars == << site, siteResponse, siteDone, siteOutcome >>
scraperVars == << spc, sourcesArg, sources, sidx, contacted, sresult >>
fetcherVars == << use_web_scraping, web_scraper >>
fetchVars == << fpc, fsymbol, retry_count, attempt, period, windows, infoRead,
                tickerInfo, sleeps, scraperCalled, scraped, quoteGiven, fresult, fexc >>
batchVars == << bpc, symbols, bidx, bprices, delays, fetched, timeline, earlier >>
thresholdVars == << stocks, prices, checked, violations, calls >>
notifierVars == << notifier >>
notifyVars == << nmethod, nitems, noutcome, ndelivery >>
cycleVars == << configFile, cpc, last_prices, alerted, alertArgs >>
summaryVars == << dpc, sprices, summaryCalls >>
statusVars == << displayed, htmlLines >>
vars == << extractVars, sourceVars, scraperVars, fetcherVars, fetchVars, batchVars,
           thresholdVars, notifierVars, notifyVars, cycleVars, summaryVars, statusVars >>

\* what an action of one component leaves alone
exceptExtract == << sourceVars, scraperVars, fetcherVars, fetchVars, batchVars,
                    thresholdVars, notifierVars, notifyVars, cycleVars,
                    summaryVars, statusVars >>
exceptSource == << extractVars, scraperVars, fetcherVars, fetchVars, batchVars,
                   thresholdVars, notifierVars, notifyVars, cycleVars,
                    summaryVars, statusVars >>
exceptScraper == << extractVars, sourceVars, fetcherVars, fetchVars, batchVars,
                    thresholdVars, notifierVars, notifyVars, cycleVars,
                    summaryVars, statusVars >>
exceptFetch == << extractVars, sourceVars, scraperVars, fetcherVars, batchVars,
                  thresholdVars, notifierVars, notifyVars, cycleVars,
                    summaryVars, statusVars >>
exceptBatch == << extractVars, sourceVars, scraperVars, fetcherVars,
                  thresholdVars, notifierVars, notifyVars, cycleVars,
                    summaryVars, statusVars >>
exceptThreshold == << extractVars, sourceVars, scraperVars, fetcherVars, fetchVars,
                      batchVars, notifierVars, notifyVars, cycleVars,
                    summaryVars, statusVars >>
exceptNotify == << extractVars, sourceVars, scraperVars, fetcherVars, fetchVars,
                   batchVars, thresholdVars, notifierVars, cycleVars, summaryVars, statusVars >>
\* a cycle runs the fetcher, the checker and the notifier
exceptCycle == << extractVars, sourceVars, scraperVars, fetcherVars, notifierVars,
                  notifyVars, summaryVars, statusVars >>
\* a send_daily_summary call of the tracker reads the cache and the checker
exceptSummary == << extractVars, sourceVars, scraperVars, fetcherVars, fetchVars,
                    batchVars, thresholdVars, notifierVars, notifyVars, cycleVars,
                    statusVars >>
\* the summaries read the checker's instruments and a price map
exceptStatus == << extractVars, sourceVars, scraperVars, fetcherVars, fetchVars,
                   batchVars, thresholdVars, notifierVars, notifyVars, cycleVars,
                   summaryVars >>

None == << >>
Some(x) == << x >>
IsNone(o) == o = << >>
Val(o) == o[1]

(***************************************************************************)
(* Each component before any call on it.  A specification of one component *)
(* keeps the others in this state.                                         *)
(***************************************************************************)
ExtractIdle ==
    /\ text = << >>
    /\ extractDone = FALSE
    /\ extracted = None
    /\ textGiven = TRUE
    /\ extractExc = ""

SourceIdle ==
    /\ site = ""
    /\ siteResponse = << >>
    /\ siteDone = FALSE
    /\ siteOutcome = << >>

ScraperIdle ==
    /\ spc = "idle"
    /\ sourcesArg = None
    /\ sources = << >>
    /\ sidx = 0
    /\ contacted = << >>
    /\ sresult = None

FetcherIdle ==
    /\ use_web_scraping = FALSE
    /\ web_scraper = FALSE

FetchIdle ==
    /\ fpc = "idle"
    /\ fsymbol = ""
    /\ retry_count = 0
    /\ attempt = 0
    /\ period = 0
    /\ windows = << >>
    /\ infoRead = FALSE
    /\ tickerInfo = None
    /\ sleeps = << >>
    /\ scraperCalled = FALSE
    /\ scraped = << >>
    /\ quoteGiven = None
    /\ fresult = None
    /\ fexc = ""

BatchIdle ==
    /\ bpc = "idle"
    /\ symbols = << >>
    /\ bidx = 0
    /\ bprices = << >>
    /\ delays = << >>
    /\ fetched = << >>
    /\ timeline = << >>
    /\ earlier = << >>

ThresholdIdle ==
    /\ stocks = << >>
    /\ prices = << >>
    /\ checked = FALSE
    /\ violations = << >>
    /\ calls = << >>

\* a notifier built with no mail variable in the environment (lines 19-23)
NotifierIdle ==
    notifier = [smtp_port |-> 587, sender_email |-> None,
                sender_password |-> None, recipient_email |-> None]

NotifyIdle ==
    /\ nmethod = ""
    /\ nitems = << >>
    /\ noutcome = None
    /\ ndelivery = ""

CycleIdle ==
    /\ configFile = [kind |-> "missing", stocks |-> << >>]
    /\ cpc = "idle"
    /\ last_prices = << >>
    /\ alerted = None
    /\ alertArgs = << >>

SummaryIdle ==
    /\ dpc = "idle"
    /\ sprices = << >>
    /\ summaryCalls = << >>

StatusIdle ==
    /\ displayed = None
    /\ htmlLines = None

(***************************************************************************)
(* Texts                                                                   *)
(***************************************************************************)
Digits == {"0", "1", "2", "3", "4", "5", "6", "7", "8", "9"}
\* \s of the regular expression and the characters str.strip() removes
Tab == "tab"
Whitespace == {" ", Tab}
Separators == {".", ","}

IsDigit(c) == c \in Digits
IsSpace(c) == c \in Whitespace
IsSep(c) == c \in Separators

DigitVal(c) ==
    CASE c = "0" -> 0 [] c = "1" -> 1 [] c = "2" -> 2 [] c = "3" -> 3
      [] c = "4" -> 4 [] c = "5" -> 5 [] c = "6" -> 6 [] c = "7" -> 7
      [] c = "8" -> 8 [] c = "9" -> 9

\* s[i..j] (1-based, inclusive), empty when j < i
Slice(s, i, j) == IF j < i THEN << >> ELSE SubSeq(s, i, j)

\* str.strip(): leading and trailing whitespace removed
RECURSIVE LStrip(_)
LStrip(s) ==
    IF s # << >> /\ IsSpace(Head(s)) THEN LStrip(Tail(s)) ELSE s

RECURSIVE RStrip(_)
RStrip(s) ==
    IF s # << >> /\ IsSpace(s[Len(s)]) THEN RStrip(Slice(s, 1, Len(s) - 1)) ELSE s

Strip(s) == RStrip(LStrip(s))

HasPrefix(s, p) == Len(p) <= Len(s) /\ Slice(s, 1, Len(p)) = p

\* str.replace(pat, ''): every non-overlapping occurrence, left to right
RECURSIVE Remove(_, _)
Remove(s, pat) ==
    IF s = << >> THEN << >>
    ELSE IF HasPrefix(s, pat) THEN Remove(Slice(s, Len(pat) + 1, Len(s)), pat)
    ELSE << Head(s) >> \o Remove(Tail(s), pat)

\* str.replace(a, b) for single characters
ReplaceChar(s, a, b) == [i \in 1..Len(s) |-> IF s[i] = a THEN b ELSE s[i]]

Contains(s, c) == \E i \in 1..Len(s) : s[i] = c

\* str.rindex(c), 1-based; only used when c occurs
RIndex(s, c) == CHOOSE i \in 1..Len(s) : s[i] = c /\ \A j \in (i+1)..Len(s) : s[j] # c

(***************************************************************************)
(* re.findall(r'[\d\s]+[.,]\d+|[\d]+', text)                               *)
(***************************************************************************)
\* first index >= i whose character is not a digit (Len(s)+1 if none)
RECURSIVE DigitRunEnd(_, _)
DigitRunEnd(s, i) ==
    IF i <= Len(s) /\ IsDigit(s[i]) THEN DigitRunEnd(s, i + 1) ELSE i

\* first index >= i whose character is neither a digit nor whitespace
RECURSIVE DigitSpaceRunEnd(_, _)
DigitSpaceRunEnd(s, i) ==
    IF i <= Len(s) /\ (IsDigit(s[i]) \/ IsSpace(s[i]))
    THEN DigitSpaceRunEnd(s, i + 1) ELSE i

\* [\d\s]+[.,]\d+ anchored at i: the index after the match, 0 if no match.
\* The greedy run can only be followed by a separator at its full length.
FirstAltEnd(s, i) ==
    LET j == DigitSpaceRunEnd(s, i)
    IN IF j > i /\ j + 1 <= Len(s) /\ IsSep(s[j]) /\ IsDigit(s[j + 1])
       THEN DigitRunEnd(s, j + 1)
       ELSE 0

\* [\d]+ anchored at i
SecondAltEnd(s, i) ==
    IF i <= Len(s) /\ IsDigit(s[i]) THEN DigitRunEnd(s, i) ELSE 0

\* the alternation prefers its first branch
MatchEnd(s, i) ==
    IF FirstAltEnd(s, i) # 0 THEN FirstAltEnd(s, i) ELSE SecondAltEnd(s, i)

\* the matches from position i on, leftmost first, non-overlapping
RECURSIVE FindAllFrom(_, _)
FindAllFrom(s, i) ==
    IF i > Len(s) THEN << >>
    ELSE IF MatchEnd(s, i) # 0
         THEN << Slice(s, i, MatchEnd(s, i) - 1) >> \o FindAllFrom(s, MatchEnd(s, i))
         ELSE FindAllFrom(s, i + 1)

FindAll(s) == FindAllFrom(s, 1)

(***************************************************************************)
(* float(price_str)                                                        *)
(***************************************************************************)
RECURSIVE DigitsValue(_)
DigitsValue(s) ==
    IF s = << >> THEN 0
    ELSE 10 * DigitsValue(Slice(s, 1, Len(s) - 1)) + DigitVal(s[Len(s)])

RECURSIVE Lowest(_)
Lowest(d) ==
    IF d.e > 0 /\ d.m % 10 = 0 THEN Lowest([m |-> d.m \div 10, e |-> d.e - 1]) ELSE d

Decimal(m, e) == Lowest([m |-> m, e |-> e])

\* float() accepts digits with at most one '.', and at least one digit
FloatAccepts(s) ==
    /\ \A i \in 1..Len(s) : IsDigit(s[i]) \/ s[i] = "."
    /\ \E i \in 1..Len(s) : IsDigit(s[i])
    /\ Cardinality({i \in 1..Len(s) : s[i] = "."}) <= 1

\* the value of an accepted numeral
FloatValue(s) ==
    LET nodot == Remove(s, << "." >>)
        frac == IF Contains(s, ".") THEN Len(s) - RIndex(s, ".") ELSE 0
    IN Decimal(DigitsValue(nodot), frac)

(***************************************************************************)
(* WebScraper._extract_price                                               *)
(***************************************************************************)
\* the one-character string that stands for the euro sign
Euro == "euro"

\* line 190: strip, then the four replace calls in order
RemoveCurrency(s) ==
    Remove(Remove(Remove(Remove(Strip(s), << "$" >>), << Euro >>),
                  << "U", "S", "D" >>), << "E", "U", "R" >>)

\* lines 207-217: which separator is the decimal one
NormaliseSeparators(p) ==
    IF Contains(p, ",") /\ Contains(p, ".")
    THEN IF RIndex(p, ",") > RIndex(p, ".")
         THEN ReplaceChar(Remove(p, << "." >>), ",", ".")
         ELSE Remove(p, << "," >>)
    ELSE IF Contains(p, ",") THEN ReplaceChar(p, ",", ".")
    ELSE p

\* how a call ends: exc names the exception that leaves the call ("" if
\* it returns), val is the Optional decimal returned
Returns(v) == [exc |-> "", val |-> v]
Raises(e) == [exc |-> e, val |-> None]

\* lines 189-219, the body of the try: arg is None or Some(text).  None
\* has no strip method (AttributeError); float() rejects a string that is
\* not a numeral (ValueError)
extract_price_body(arg) ==
    IF arg = None THEN Raises("AttributeError")
    ELSE LET cleaned == RemoveCurrency(Val(arg))
             matches == FindAll(cleaned)
         IN IF matches = << >> THEN Returns(None)
            ELSE LET price_str ==
                         NormaliseSeparators(Remove(Strip(matches[1]), << " " >>))
                 IN IF FloatAccepts(price_str) THEN Returns(Some(FloatValue(price_str)))
                    ELSE Raises("ValueError")

\* ExtractCatches without AttributeError
ExtractCatchesValueErrorOnly == {"ValueError"}

\* line 221: except (ValueError, AttributeError)
ExtractCatches == {"ValueError", "AttributeError"}

\* lines 188-223 with an argument that may be None
extract_price_call(arg) ==
    LET outcome == extract_price_body(arg)
    IN IF outcome.exc \in ExtractCatches THEN Returns(None) ELSE outcome

\* lines 188-223 for a text: Optional decimal; a ValueError of float() is
\* caught and gives None
extract_price(t) == extract_price_call(Some(t)).val

(***************************************************************************)
(* Inputs of _extract_price                                                *)
(***************************************************************************)
MaxTextLen == 4

TextAlphabet == {"1", "5", "0", ".", ",", " ", "x"}

RECURSIVE TextsOfLen(_)
TextsOfLen(n) ==
    IF n = 0 THEN {<< >>}
    ELSE {<< c >> \o t : c \in TextAlphabet, t \in TextsOfLen(n - 1)}

RECURSIVE TextsUpTo(_)
TextsUpTo(n) == IF n = 0 THEN TextsOfLen(0) ELSE TextsOfLen(n) \cup TextsUpTo(n - 1)

\* "1.234,56 EUR", "1,234.56", "175,50", "not a price"
TextEuropean == << "1", ".", "2", "3", "4", ",", "5", "6", " ", "E", "U", "R" >>
TextAmerican == << "1", ",", "2", "3", "4", ".", "5", "6" >>
TextCommaOnly == << "1", "7", "5", ",", "5", "0" >>
TextNoDigits == << "n", "o", "t", " ", "a", " ", "p", "r", "i", "c", "e" >>
\* "1 234.56", "$175.50", "1<tab>2.5", "EUSDUR 7", "<euro> .5"
TextSpaced == << "1", " ", "2", "3", "4", ".", "5", "6" >>
TextDollar == << "$", "1", "7", "5", ".", "5", "0" >>
TextTabbed == << "1", Tab, "2", ".", "5" >>
TextNested == << "E", "U", "S", "D", "U", "R", " ", "7" >>
TextBareFraction == << Euro, " ", ".", "5" >>

SampleTexts ==
    { TextEuropean, TextAmerican, TextCommaOnly, TextNoDigits, TextSpaced,
      TextDollar, TextTabbed, TextNested, TextBareFraction }

Texts == TextsUpTo(MaxTextLen) \cup SampleTexts

\* the argument of a call: a text, or None
TextArgs == {None} \cup {Some(t) : t \in Texts}

(***************************************************************************)
(* Specification of one _extract_price call                                *)
(***************************************************************************)
InitExtract ==
    /\ StatusIdle
    /\ SummaryIdle
    /\ \E arg \in TextArgs :
         /\ textGiven = (arg # None)
         /\ text = IF arg = None THEN << >> ELSE Val(arg)
    /\ extractDone = FALSE
    /\ extracted = None
    /\ extractExc = ""
    /\ ScraperIdle
    /\ FetcherIdle
    /\ FetchIdle
    /\ BatchIdle
    /\ ThresholdIdle
    /\ SourceIdle
    /\ NotifierIdle
    /\ NotifyIdle
    /\ CycleIdle

ExtractPrice ==
    /\ ~extractDone
    /\ LET outcome == extract_price_call(IF textGiven THEN Some(text) ELSE None)
       IN /\ extracted' = outcome.val
          /\ extractExc' = outcome.exc
    /\ extractDone' = TRUE
    /\ UNCHANGED << text, textGiven, exceptExtract >>

NextExtract == ExtractPrice

SpecExtract == InitExtract /\ [][NextExtract]_vars

(***************************************************************************)
(* The scraping sources: get_price_from_google_finance,                    *)
(* get_price_from_marketwatch, get_price_from_boursorama                   *)
(*                                                                         *)
(* What a site answers to session.get is a response record:                *)
(*   raises : the transport (or the HTML parser) raised                    *)
(*   status : response.status_code                                         *)
(*   elems  : per selector of the source's ordered list, the stripped text *)
(*            of the element soup.select_one finds (None: no element)      *)
(* What a call gives back is an outcome [exc, val]: exc says an exception  *)
(* left the call, val is the Optional decimal returned otherwise.          *)
(***************************************************************************)
GoogleSelectors == 3
MarketwatchSelectors == 3
BoursoramaSelectors == 4

Returned(v) == [exc |-> FALSE, val |-> v]
Raised == [exc |-> TRUE, val |-> None]

\* "if price is not None:" in the place of "if price:"
TruthyNotNone(price) == price # None

\* "if price:" -- neither None nor 0.0
Truthy(price) == price # None /\ Val(price).m # 0

\* select_price with the first element found deciding, whatever its text
RECURSIVE select_price_first_element(_)
select_price_first_element(elems) ==
    IF elems = << >> THEN None
    ELSE IF Head(elems) = None THEN select_price_first_element(Tail(elems))
    ELSE extract_price(Val(Head(elems)))

\* the selector loop: the first element whose text parses to a truthy
\* price decides; an element whose text does not is passed over
RECURSIVE select_price(_)
select_price(elems) ==
    IF elems = << >> THEN None
    ELSE IF Head(elems) = None THEN select_price(Tail(elems))
    ELSE LET price == extract_price(Val(Head(elems)))
         IN IF Truthy(price) THEN price ELSE select_price(Tail(elems))

\* scrape_source without its try / except: a transport failure leaves the call
scrape_source_unguarded(response) ==
    IF response.raises THEN Raised
    ELSE IF response.status # 200 THEN Returned(None)
    ELSE Returned(select_price(response.elems))

\* the body shared by the three functions: everything is inside
\* try / except Exception, so no exception leaves the call
scrape_source(response) ==
    IF response.raises THEN Returned(None)
    ELSE IF response.status # 200 THEN Returned(None)
    ELSE Returned(select_price(response.elems))

get_price_from_google_finance(response) == scrape_source(response)
get_price_from_marketwatch(response) == scrape_source(response)
get_price_from_boursorama(response) == scrape_source(response)

KnownSources == {"google", "marketwatch", "boursorama"}

NumSelectors(source) ==
    CASE source = "google" -> GoogleSelectors
      [] source = "marketwatch" -> MarketwatchSelectors
      [] source = "boursorama" -> BoursoramaSelectors

\* lines 241-246: the dispatch on the source name
call_source(source, response) ==
    CASE source = "google" -> get_price_from_google_finance(response)
      [] source = "marketwatch" -> get_price_from_marketwatch(response)
      [] source = "boursorama" -> get_price_from_boursorama(response)

(***************************************************************************)
(* Responses of the sites                                                  *)
(***************************************************************************)
\* "N/A", "0", "42.0", "1,5"
PageTexts ==
    { << "N", "/", "A" >>, << "0" >>, << "4", "2", ".", "0" >>, << "1", ",", "5" >> }

ElemChoices == {None} \cup {Some(t) : t \in PageTexts}

\* pages where at most the first two selectors find an element
Pages(source) ==
    { [i \in 1..NumSelectors(source) |-> IF i = 1 THEN a ELSE IF i = 2 THEN b ELSE None]
        : a \in ElemChoices, b \in ElemChoices }

NoPage(source) == [i \in 1..NumSelectors(source) |-> None]

Responses(source) ==
    { [raises |-> TRUE, status |-> 0, elems |-> NoPage(source)],
      [raises |-> FALSE, status |-> 404, elems |-> NoPage(source)] }
    \cup { [raises |-> FALSE, status |-> 200, elems |-> p] : p \in Pages(source) }

\* how a response fails, "ok" if it yields a price
FailureKind(response) ==
    IF response.raises THEN "transport"
    ELSE IF response.status # 200 THEN "status"
    ELSE IF \A i \in 1..Len(response.elems) : response.elems[i] = None THEN "no element"
    ELSE IF select_price(response.elems) = None THEN "unparsable"
    ELSE "ok"

\* the page carries an element whose text parses to the price 0
HasZeroText(response) ==
    /\ ~response.raises
    /\ response.status = 200
    /\ \E i \in 1..Len(response.elems) :
         /\ response.elems[i] # None
         /\ extract_price(Val(response.elems[i])) # None
         /\ Val(extract_price(Val(response.elems[i]))).m = 0

(***************************************************************************)
(* Specification of one call of a get_price_from_* function                *)
(***************************************************************************)
\* the texts of PageTexts and the empty text
SiteTexts == PageTexts \cup {<< >>}

SiteElemChoices == {None} \cup {Some(t) : t \in SiteTexts}

\* pages where any selector of the list may find an element
SitePages(source) == [1..NumSelectors(source) -> SiteElemChoices]

SiteResponses(source) ==
    { [raises |-> TRUE, status |-> 0, elems |-> NoPage(source)],
      [raises |-> FALSE, status |-> 404, elems |-> NoPage(source)] }
    \cup { [raises |-> FALSE, status |-> 200, elems |-> p] : p \in SitePages(source) }

InitSource ==
    /\ StatusIdle
    /\ SummaryIdle
    /\ site \in KnownSources
    /\ siteResponse \in SiteResponses(site)
    /\ siteDone = FALSE
    /\ siteOutcome = << >>
    /\ ExtractIdle
    /\ ScraperIdle
    /\ FetcherIdle
    /\ FetchIdle
    /\ BatchIdle
    /\ ThresholdIdle
    /\ NotifierIdle
    /\ NotifyIdle
    /\ CycleIdle

ScrapeSite ==
    /\ ~siteDone
    /\ siteOutcome' = call_source(site, siteResponse)
    /\ siteDone' = TRUE
    /\ UNCHANGED << site, siteResponse, exceptSource >>

NextSource == ScrapeSite

SpecSource == InitSource /\ [][NextSource]_vars

(***************************************************************************)
(* WebScraper.get_stock_price(symbol, sources=None)                        *)
(***************************************************************************)
DefaultSources == << "google", "marketwatch", "boursorama" >>

MaxSources == 3

SourceNames == KnownSources \cup {"yahoo"}

RECURSIVE SourceListsOfLen(_)
SourceListsOfLen(n) ==
    IF n = 0 THEN {<< >>}
    ELSE {<< s >> \o l : s \in SourceNames, l \in SourceListsOfLen(n - 1)}

RECURSIVE SourceListsUpTo(_)
SourceListsUpTo(n) ==
    IF n = 0 THEN SourceListsOfLen(0) ELSE SourceListsOfLen(n) \cup SourceListsUpTo(n - 1)

\* the sources argument: None or a list
SourcesArgs == {None} \cup {Some(l) : l \in SourceListsUpTo(MaxSources)}

\* lines 236-237
ScraperCall ==
    /\ spc = "idle"
    /\ \E arg \in SourcesArgs :
         /\ sourcesArg' = arg
         /\ sources' = IF arg = None THEN DefaultSources ELSE Val(arg)
    /\ sidx' = 1
    /\ spc' = "loop"
    /\ UNCHANGED << contacted, sresult, exceptScraper >>

\* TrySource without the return at the first price: the loop goes on
TrySourceNoEarlyReturn ==
    /\ spc = "loop"
    /\ sidx <= Len(sources)
    /\ sources[sidx] \in KnownSources
    /\ \E response \in Responses(sources[sidx]) :
         LET outcome == call_source(sources[sidx], response)
         IN /\ contacted' = Append(contacted,
                  [source |-> sources[sidx], kind |-> FailureKind(response),
                   zero |-> HasZeroText(response),
                   exc |-> outcome.exc, price |-> outcome.val])
            /\ sresult' = IF outcome.exc THEN sresult ELSE outcome.val
    /\ sidx' = sidx + 1
    /\ UNCHANGED << spc, sourcesArg, sources, exceptScraper >>

\* lines 239-256, one iteration for a known source: the call, then
\* "if price is not None: return price"; an exception leaving the call is
\* caught and the loop goes on
TrySource ==
    /\ spc = "loop"
    /\ sidx <= Len(sources)
    /\ sources[sidx] \in KnownSources
    /\ \E response \in Responses(sources[sidx]) :
         LET outcome == call_source(sources[sidx], response)
         IN /\ contacted' = Append(contacted,
                  [source |-> sources[sidx], kind |-> FailureKind(response),
                   zero |-> HasZeroText(response),
                   exc |-> outcome.exc, price |-> outcome.val])
            /\ IF ~outcome.exc /\ outcome.val # None
               THEN /\ sresult' = outcome.val
                    /\ spc' = "returned"
                    /\ sidx' = sidx
               ELSE /\ sidx' = sidx + 1
                    /\ UNCHANGED << sresult, spc >>
    /\ UNCHANGED << sourcesArg, sources, exceptScraper >>

\* lines 247-249: an unknown source name is logged and skipped
SkipUnknownSource ==
    /\ spc = "loop"
    /\ sidx <= Len(sources)
    /\ sources[sidx] \notin KnownSources
    /\ sidx' = sidx + 1
    /\ UNCHANGED << spc, sourcesArg, sources, contacted, sresult, exceptScraper >>

\* lines 258-259
AllSourcesFailed ==
    /\ spc = "loop"
    /\ sidx > Len(sources)
    /\ sresult' = None
    /\ spc' = "returned"
    /\ UNCHANGED << sourcesArg, sources, sidx, contacted, exceptScraper >>

InitScraper ==
    /\ StatusIdle
    /\ SummaryIdle
    /\ ScraperIdle
    /\ ExtractIdle
    /\ FetcherIdle
    /\ FetchIdle
    /\ BatchIdle
    /\ ThresholdIdle
    /\ SourceIdle
    /\ NotifierIdle
    /\ NotifyIdle
    /\ CycleIdle

NextScraper ==
    \/ ScraperCall
    \/ TrySource
    \/ SkipUnknownSource
    \/ AllSourcesFailed

SpecScraper == InitScraper /\ [][NextScraper]_vars

(***************************************************************************)
(* StockFetcher.__init__                                                   *)
(***************************************************************************)
\* lines 25-42: arg is the use_web_scraping argument (Optional BOOLEAN),
\* env says whether USE_WEB_SCRAPING reads 'true', importable whether
\* "from web_scraper import WebScraper" succeeds
StockFetcherInit(arg, env, importable) ==
    LET wanted == IF arg = None THEN env ELSE Val(arg)
    IN [use_web_scraping |-> wanted /\ importable,
        web_scraper |-> wanted /\ importable]

FetcherObjects ==
    { StockFetcherInit(arg, env, importable) :
        arg \in {None, Some(TRUE), Some(FALSE)}, env \in BOOLEAN, importable \in BOOLEAN }

(***************************************************************************)
(* The environment of get_stock_price                                      *)
(***************************************************************************)
Symbols == {"AAPL", "MSFT"}

QuotePrices == {7, 9}

\* the parameters WebScraper.get_stock_price declares besides self
\* (web_scraper.py line 225), and the keywords StockFetcher passes it
\* (stock_fetcher.py line 62)
ScraperParams == {"symbol", "sources"}
ScraperCallKeywords == {"name"}

\* Python binds a call only if every keyword names a parameter; otherwise
\* it raises TypeError before the body runs
ScraperCallBinds == ScraperCallKeywords \subseteq ScraperParams

\* what WebScraper.get_stock_price can return
ScraperResults == {None} \cup {Some(p) : p \in QuotePrices}

\* Periods with the longest window first
PeriodsLongestFirst == << "1mo", "5d", "1d" >>

\* line 75
Periods == << "1d", "5d", "1mo" >>

\* ticker.history(period): it raises, or gives a series whose last close
\* is close (None: the series is empty)
HistoryOutcomes ==
    { [raises |-> TRUE, close |-> None], [raises |-> FALSE, close |-> None] }
    \cup { [raises |-> FALSE, close |-> Some(p)] : p \in QuotePrices }

\* a key of ticker.info: absent, present with None, present with a number
FieldChoices ==
    { [present |-> FALSE, value |-> None], [present |-> TRUE, value |-> None] }
    \cup { [present |-> TRUE, value |-> Some(p)] : p \in QuotePrices }

\* ticker.info: reading it raises (the fields are then not looked at), or
\* it is a dict with these two keys
Infos ==
    { [raises |-> TRUE, currentPrice |-> [present |-> FALSE, value |-> None],
       regularMarketPrice |-> [present |-> FALSE, value |-> None]] }
    \cup { [raises |-> FALSE, currentPrice |-> c, regularMarketPrice |-> m] :
             c \in FieldChoices, m \in FieldChoices }

\* lines 88-99: the price the metadata fallback returns, None if it
\* returns nothing.  Formatting None with :.4f raises TypeError inside the
\* try, which the except swallows; the elif is then not evaluated.
info_price(info) ==
    IF info.raises THEN None
    ELSE IF info.currentPrice.present THEN info.currentPrice.value
    ELSE IF info.regularMarketPrice.present THEN info.regularMarketPrice.value
    ELSE None

\* Pow2 with the exponent counted from 1: 2, 4, 8, ...
RECURSIVE Pow2FromOne(_)
Pow2FromOne(n) == IF n <= 0 THEN 2 ELSE 2 * Pow2FromOne(n - 1)

RECURSIVE Pow2(_)
Pow2(n) == IF n <= 0 THEN 1 ELSE 2 * Pow2(n - 1)

(***************************************************************************)
(* StockFetcher.get_stock_price(symbol, retry_count=3, name='')            *)
(***************************************************************************)
DefaultRetryCount == 3

MaxRetry == 3

RetryCounts == (0 - 1)..MaxRetry

\* entry of the call, lines 56-60
EnterGetStockPrice(symbol, count) ==
    /\ fsymbol' = symbol
    /\ retry_count' = count
    /\ attempt' = 0
    /\ period' = 0
    /\ windows' = << >>
    /\ infoRead' = FALSE
    /\ tickerInfo' = None
    /\ sleeps' = << >>
    /\ scraperCalled' = FALSE
    /\ scraped' = << >>
    /\ quoteGiven' = None
    /\ fresult' = None
    /\ fexc' = ""
    /\ fpc' = IF use_web_scraping /\ web_scraper THEN "scrape" ELSE "loop"

\* a direct call with any arguments
FetchCall ==
    /\ fpc = "idle"
    /\ \E symbol \in Symbols, count \in RetryCounts : EnterGetStockPrice(symbol, count)
    /\ UNCHANGED exceptFetch

\* lines 61-65: the call of the scraper is outside every try
ScrapeFirst ==
    /\ fpc = "scrape"
    /\ IF ~ScraperCallBinds
       THEN /\ fexc' = "TypeError"
            /\ fpc' = "raised"
            /\ UNCHANGED << scraperCalled, scraped, fresult >>
       ELSE /\ scraperCalled' = TRUE
            /\ fexc' = fexc
            /\ \E price \in ScraperResults :
                 /\ scraped' = << price >>
                 /\ IF price # None /\ Val(price) # 0
                    THEN fresult' = price /\ fpc' = "returned"
                    ELSE fresult' = fresult /\ fpc' = "loop"
    /\ UNCHANGED << fsymbol, retry_count, attempt, period, windows, infoRead, tickerInfo,
                    sleeps, quoteGiven, exceptFetch >>

\* lines 68-72: the next attempt starts; creating the ticker or setting
\* its header may raise, which the outer except catches
AttemptStart ==
    /\ fpc = "loop"
    /\ attempt < retry_count
    /\ \E ok \in BOOLEAN : fpc' = IF ok THEN "period" ELSE "error"
    /\ period' = 1
    /\ windows' = << >>
    /\ infoRead' = FALSE
    /\ tickerInfo' = None
    /\ UNCHANGED << fsymbol, retry_count, attempt, sleeps, scraperCalled, scraped,
                    quoteGiven, fresult, fexc, exceptFetch >>

\* lines 75-85: one window of the inner loop
HistoryPeriod ==
    /\ fpc = "period"
    /\ windows' = Append(windows, Periods[period])
    /\ \E h \in HistoryOutcomes :
         IF ~h.raises /\ h.close # None
         THEN /\ quoteGiven' = h.close
              /\ fresult' = h.close
              /\ fpc' = "returned"
              /\ period' = period
         ELSE /\ UNCHANGED << quoteGiven, fresult >>
              /\ IF period < Len(Periods)
                 THEN period' = period + 1 /\ fpc' = "period"
                 ELSE period' = period /\ fpc' = "info"
    /\ UNCHANGED << fsymbol, retry_count, attempt, infoRead, tickerInfo, sleeps,
                    scraperCalled, scraped, fexc, exceptFetch >>

\* lines 87-99: the metadata fallback of the same attempt
InfoFallback ==
    /\ fpc = "info"
    /\ infoRead' = TRUE
    /\ \E info \in Infos :
         /\ tickerInfo' = Some(info)
         /\ IF info_price(info) # None
            THEN /\ quoteGiven' = info_price(info)
                 /\ fresult' = info_price(info)
                 /\ fpc' = "returned"
            ELSE /\ UNCHANGED << quoteGiven, fresult >>
                 /\ fpc' = "nodata"
    /\ UNCHANGED << fsymbol, retry_count, attempt, period, windows, sleeps,
                    scraperCalled, scraped, fexc, exceptFetch >>

\* NoDataBackoff sleeping after the last attempt too
NoDataBackoffAlwaysSleeps ==
    /\ fpc = "nodata"
    /\ sleeps' = Append(sleeps, Pow2(attempt))
    /\ attempt' = attempt + 1
    /\ fpc' = "loop"
    /\ UNCHANGED << fsymbol, retry_count, period, windows, infoRead, tickerInfo,
                    scraperCalled, scraped, quoteGiven, fresult, fexc, exceptFetch >>

\* lines 101-105: nothing was returned in this attempt
NoDataBackoff ==
    /\ fpc = "nodata"
    /\ sleeps' = IF attempt < retry_count - 1
                 THEN Append(sleeps, Pow2(attempt)) ELSE sleeps
    /\ attempt' = attempt + 1
    /\ fpc' = "loop"
    /\ UNCHANGED << fsymbol, retry_count, period, windows, infoRead, tickerInfo,
                    scraperCalled, scraped, quoteGiven, fresult, fexc, exceptFetch >>

\* lines 107-110: the outer except
ErrorBackoff ==
    /\ fpc = "error"
    /\ sleeps' = IF attempt < retry_count - 1
                 THEN Append(sleeps, Pow2(attempt)) ELSE sleeps
    /\ attempt' = attempt + 1
    /\ fpc' = "loop"
    /\ UNCHANGED << fsymbol, retry_count, period, windows, infoRead, tickerInfo,
                    scraperCalled, scraped, quoteGiven, fresult, fexc, exceptFetch >>

\* lines 112-113: range(retry_count) is exhausted
GiveUp ==
    /\ fpc = "loop"
    /\ attempt >= retry_count
    /\ fresult' = None
    /\ fpc' = "returned"
    /\ UNCHANGED << fsymbol, retry_count, attempt, period, windows, infoRead, tickerInfo,
                    sleeps, scraperCalled, scraped, quoteGiven, fexc, exceptFetch >>

InitFetch ==
    /\ StatusIdle
    /\ SummaryIdle
    /\ \E f \in FetcherObjects :
         /\ use_web_scraping = f.use_web_scraping
         /\ web_scraper = f.web_scraper
    /\ FetchIdle
    /\ ExtractIdle
    /\ ScraperIdle
    /\ BatchIdle
    /\ ThresholdIdle
    /\ SourceIdle
    /\ NotifierIdle
    /\ NotifyIdle
    /\ CycleIdle

NextFetch ==
    \/ FetchCall
    \/ ScrapeFirst
    \/ AttemptStart
    \/ HistoryPeriod
    \/ InfoFallback
    \/ NoDataBackoff
    \/ ErrorBackoff
    \/ GiveUp

SpecFetch == InitFetch /\ [][NextFetch]_vars

(***************************************************************************)
(* StockFetcher.get_multiple_prices(symbols, symbol_to_name)               *)
(***************************************************************************)
PacingSeconds == 3

MaxSymbols == 2

RECURSIVE SymbolListsOfLen(_)
SymbolListsOfLen(n) ==
    IF n = 0 THEN {<< >>}
    ELSE {<< s >> \o l : s \in Symbols, l \in SymbolListsOfLen(n - 1)}

RECURSIVE SymbolListsUpTo(_)
SymbolListsUpTo(n) ==
    IF n = 0 THEN SymbolListsOfLen(0) ELSE SymbolListsOfLen(n) \cup SymbolListsUpTo(n - 1)

\* d[k] = v of a Python dict
DictSet(d, k, v) == [x \in (DOMAIN d) \cup {k} |-> IF x = k THEN v ELSE d[x]]

\* lines 126-130: entry of the call with the list l; prices is a new dict,
\* and an empty list returns it at once
EnterGetMultiplePrices(l) ==
    /\ symbols' = l
    /\ bpc' = IF l = << >> THEN "returned" ELSE "fetch"
    /\ bidx' = 1
    /\ bprices' = << >>
    /\ delays' = << >>
    /\ fetched' = << >>
    /\ timeline' = << >>

\* a direct call with any list, the first one or one after an earlier call
\* has returned
BatchCall ==
    /\ bpc \in {"idle", "returned"}
    /\ fpc = "idle"
    /\ \E l \in SymbolListsUpTo(MaxSymbols) : EnterGetMultiplePrices(l)
    /\ earlier' = bprices
    /\ UNCHANGED << fetchVars, exceptBatch >>

\* the events of the timeline
Started(symbol) == [event |-> "start", symbol |-> symbol, seconds |-> 0]
Finished(symbol) == [event |-> "finish", symbol |-> symbol, seconds |-> 0]
Slept(seconds) == [event |-> "sleep", symbol |-> "", seconds |-> seconds]

\* lines 131-132: get_stock_price(symbol, name=name) is entered
BatchFetch ==
    /\ bpc = "fetch"
    /\ EnterGetStockPrice(symbols[bidx], DefaultRetryCount)
    /\ bpc' = "wait"
    /\ timeline' = Append(timeline, Started(symbols[bidx]))
    /\ UNCHANGED << symbols, bidx, bprices, delays, fetched, earlier, exceptBatch >>

\* BatchStore with a failed fetch recorded as 0
BatchStoreFailureAsZero ==
    /\ bpc = "wait"
    /\ fpc = "returned"
    /\ bprices' = DictSet(bprices, symbols[bidx],
                          IF fresult = None THEN Some(0) ELSE fresult)
    /\ fetched' = Append(fetched, fresult)
    /\ IF bidx < Len(symbols)
       THEN /\ delays' = Append(delays, PacingSeconds)
            /\ timeline' = timeline \o << Finished(symbols[bidx]), Slept(PacingSeconds) >>
            /\ bidx' = bidx + 1
            /\ bpc' = "fetch"
       ELSE /\ delays' = delays
            /\ timeline' = Append(timeline, Finished(symbols[bidx]))
            /\ bidx' = bidx
            /\ bpc' = "returned"
    /\ fpc' = "idle"
    /\ UNCHANGED << fsymbol, retry_count, attempt, period, windows, infoRead, tickerInfo,
                    sleeps, scraperCalled, scraped, quoteGiven, fresult, fexc,
                    symbols, earlier, exceptBatch >>

\* BatchStore with the pacing sleep after the last symbol too
BatchStorePacingAfterLast ==
    /\ bpc = "wait"
    /\ fpc = "returned"
    /\ bprices' = DictSet(bprices, symbols[bidx], fresult)
    /\ fetched' = Append(fetched, fresult)
    /\ delays' = Append(delays, PacingSeconds)
    /\ timeline' = timeline \o << Finished(symbols[bidx]), Slept(PacingSeconds) >>
    /\ IF bidx < Len(symbols)
       THEN bidx' = bidx + 1 /\ bpc' = "fetch"
       ELSE bidx' = bidx /\ bpc' = "returned"
    /\ fpc' = "idle"
    /\ UNCHANGED << fsymbol, retry_count, attempt, period, windows, infoRead, tickerInfo,
                    sleeps, scraperCalled, scraped, quoteGiven, fresult, fexc,
                    symbols, earlier, exceptBatch >>

\* BatchStore writing each price into the tracker's cache as it arrives
BatchStoreIntoCache ==
    /\ bpc = "wait"
    /\ fpc = "returned"
    /\ bprices' = DictSet(bprices, symbols[bidx], fresult)
    /\ last_prices' = DictSet(bprices, symbols[bidx], fresult)
    /\ fetched' = Append(fetched, fresult)
    /\ IF bidx < Len(symbols)
       THEN /\ delays' = Append(delays, PacingSeconds)
            /\ timeline' = timeline \o << Finished(symbols[bidx]), Slept(PacingSeconds) >>
            /\ bidx' = bidx + 1
            /\ bpc' = "fetch"
       ELSE /\ delays' = delays
            /\ timeline' = Append(timeline, Finished(symbols[bidx]))
            /\ bidx' = bidx
            /\ bpc' = "returned"
    /\ fpc' = "idle"
    /\ UNCHANGED << fsymbol, retry_count, attempt, period, windows, infoRead, tickerInfo,
                    sleeps, scraperCalled, scraped, quoteGiven, fresult, fexc,
                    symbols, earlier, extractVars, sourceVars, scraperVars,
                    fetcherVars, thresholdVars, notifierVars, notifyVars,
                    configFile, cpc, alerted, alertArgs, summaryVars, statusVars >>

\* lines 132-136: the value returned is stored, then the pacing sleep
\* unless this was the last symbol
BatchStore ==
    /\ bpc = "wait"
    /\ fpc = "returned"
    /\ bprices' = DictSet(bprices, symbols[bidx], fresult)
    /\ fetched' = Append(fetched, fresult)
    /\ IF bidx < Len(symbols)
       THEN /\ delays' = Append(delays, PacingSeconds)
            /\ timeline' = timeline \o << Finished(symbols[bidx]), Slept(PacingSeconds) >>
            /\ bidx' = bidx + 1
            /\ bpc' = "fetch"
       ELSE /\ delays' = delays
            /\ timeline' = Append(timeline, Finished(symbols[bidx]))
            /\ bidx' = bidx
            /\ bpc' = "returned"
    /\ fpc' = "idle"
    /\ UNCHANGED << fsymbol, retry_count, attempt, period, windows, infoRead, tickerInfo,
                    sleeps, scraperCalled, scraped, quoteGiven, fresult, fexc,
                    symbols, earlier, exceptBatch >>

\* line 132 is in no try: an exception of get_stock_price leaves
\* get_multiple_prices too
BatchPropagate ==
    /\ bpc = "wait"
    /\ fpc = "raised"
    /\ bpc' = "raised"
    /\ UNCHANGED << symbols, bidx, bprices, delays, fetched, timeline, earlier, fetchVars,
                    exceptBatch >>

InitBatch ==
    /\ StatusIdle
    /\ SummaryIdle
    /\ \E f \in FetcherObjects :
         /\ use_web_scraping = f.use_web_scraping
         /\ web_scraper = f.web_scraper
    /\ FetchIdle
    /\ BatchIdle
    /\ ExtractIdle
    /\ ScraperIdle
    /\ ThresholdIdle
    /\ SourceIdle
    /\ NotifierIdle
    /\ NotifyIdle
    /\ CycleIdle

NextBatch ==
    \/ BatchCall
    \/ BatchFetch
    \/ BatchStore
    \/ BatchPropagate
    \/ ScrapeFirst
    \/ AttemptStart
    \/ HistoryPeriod
    \/ InfoFallback
    \/ NoDataBackoff
    \/ ErrorBackoff
    \/ GiveUp

SpecBatch == InitBatch /\ [][NextBatch]_vars

(***************************************************************************)
(* ThresholdChecker.check_thresholds(prices)                               *)
(***************************************************************************)
\* line 59: the symbol is a key of prices and its value is not None
has_price(p, symbol) == symbol \in DOMAIN p /\ p[symbol] # None

\* upper_fires with > in place of >=
upper_fires_strict(upper_threshold, current_price) ==
    upper_threshold # None /\ Val(upper_threshold) > 0
        /\ current_price > Val(upper_threshold)

\* line 67
upper_fires(upper_threshold, current_price) ==
    upper_threshold # None /\ Val(upper_threshold) > 0
        /\ current_price >= Val(upper_threshold)

\* lower_fires with < in place of <=
lower_fires_strict(lower_threshold, current_price) ==
    lower_threshold # None /\ Val(lower_threshold) > 0
        /\ current_price < Val(lower_threshold)

\* line 81
lower_fires(lower_threshold, current_price) ==
    lower_threshold # None /\ Val(lower_threshold) > 0
        /\ current_price <= Val(lower_threshold)

\* line 57: f"{name} ({symbol})" if name else symbol, as a sequence of
\* pieces of text
display_name(stock_config) ==
    IF stock_config.name # ""
    THEN << stock_config.name, " (", stock_config.symbol, ")" >>
    ELSE << stock_config.symbol >>

DigitChar(d) ==
    CASE d = 0 -> "0" [] d = 1 -> "1" [] d = 2 -> "2" [] d = 3 -> "3"
      [] d = 4 -> "4" [] d = 5 -> "5" [] d = 6 -> "6" [] d = 7 -> "7"
      [] d = 8 -> "8" [] d = 9 -> "9"

\* the decimal digits of a natural number
RECURSIVE DecimalDigits(_)
DecimalDigits(n) ==
    IF n < 10 THEN << DigitChar(n) >>
    ELSE DecimalDigits(n \div 10) \o << DigitChar(n % 10) >>

\* f"{x:.4f}" of a whole number: sign, digits, point, four zeros
Format4f(x) ==
    (IF x < 0 THEN << "-" >> ELSE << >>)
    \o DecimalDigits(IF x < 0 THEN 0 - x ELSE x)
    \o << ".", "0", "0", "0", "0" >>

\* lines 75 and 89: the message, as a sequence of pieces of text
violation_message(stock_config, current_price, threshold, type) ==
    display_name(stock_config)
    \o << IF type = "upper" THEN " reached $" ELSE " dropped to $" >>
    \o Format4f(current_price)
    \o << " (threshold: $" >>
    \o Format4f(threshold)
    \o << ")" >>

\* Violation with the message of an upper violation for both kinds
ViolationSameMessage(stock_config, current_price, threshold, type) ==
    [symbol |-> stock_config.symbol,
     name |-> stock_config.name,
     display_name |-> display_name(stock_config),
     current_price |-> current_price,
     threshold |-> threshold,
     threshold_type |-> type,
     message |-> violation_message(stock_config, current_price, threshold, "upper")]

\* lines 68-76 and 82-90
Violation(stock_config, current_price, threshold, type) ==
    [symbol |-> stock_config.symbol,
     name |-> stock_config.name,
     display_name |-> display_name(stock_config),
     current_price |-> current_price,
     threshold |-> threshold,
     threshold_type |-> type,
     message |-> violation_message(stock_config, current_price, threshold, type)]

\* price_violations with the lower check before the upper one
price_violations_lower_first(stock_config, current_price) ==
    (IF lower_fires(stock_config.lower_threshold, current_price)
     THEN << Violation(stock_config, current_price,
                       Val(stock_config.lower_threshold), "lower") >>
     ELSE << >>)
    \o
    (IF upper_fires(stock_config.upper_threshold, current_price)
     THEN << Violation(stock_config, current_price,
                       Val(stock_config.upper_threshold), "upper") >>
     ELSE << >>)

\* lines 65-91: what one instrument with a price appends
price_violations(stock_config, current_price) ==
    (IF upper_fires(stock_config.upper_threshold, current_price)
     THEN << Violation(stock_config, current_price,
                       Val(stock_config.upper_threshold), "upper") >>
     ELSE << >>)
    \o
    (IF lower_fires(stock_config.lower_threshold, current_price)
     THEN << Violation(stock_config, current_price,
                       Val(stock_config.lower_threshold), "lower") >>
     ELSE << >>)

\* stock_violations without the skip: a missing price is evaluated as 0
stock_violations_missing_as_zero(stock_config, p) ==
    price_violations(stock_config,
        IF has_price(p, stock_config.symbol) THEN Val(p[stock_config.symbol]) ELSE 0)

\* lines 51-91: one iteration of the loop
stock_violations(stock_config, p) ==
    IF ~has_price(p, stock_config.symbol) THEN << >>
    ELSE price_violations(stock_config, Val(p[stock_config.symbol]))

\* lines 48-93
RECURSIVE check_thresholds(_, _)
check_thresholds(configs, p) ==
    IF configs = << >> THEN << >>
    ELSE stock_violations(Head(configs), p) \o check_thresholds(Tail(configs), p)

(***************************************************************************)
(* Inputs of check_thresholds                                              *)
(***************************************************************************)
MaxStocks == 2

ThresholdChoices == {None, Some(0 - 1), Some(0), Some(2)}

PriceValues == {1, 2, 3}

Instruments ==
    { [symbol |-> s, name |-> "", upper_threshold |-> u, lower_threshold |-> l] :
        s \in Symbols, u \in ThresholdChoices, l \in ThresholdChoices }

RECURSIVE ConfigsOfLen(_)
ConfigsOfLen(n) ==
    IF n = 0 THEN {<< >>}
    ELSE {<< i >> \o c : i \in Instruments, c \in ConfigsOfLen(n - 1)}

RECURSIVE ConfigsUpTo(_)
ConfigsUpTo(n) == IF n = 0 THEN ConfigsOfLen(0) ELSE ConfigsOfLen(n) \cup ConfigsUpTo(n - 1)

\* the scenario of the specification: AAPL 200/150, MSFT 0/300
ScenarioStocks ==
    << [symbol |-> "AAPL", name |-> "", upper_threshold |-> Some(200),
        lower_threshold |-> Some(150)],
       [symbol |-> "MSFT", name |-> "", upper_threshold |-> Some(0),
        lower_threshold |-> Some(300)] >>

ScenarioPrices == [s \in Symbols |-> IF s = "AAPL" THEN Some(205) ELSE Some(295)]

\* a named instrument whose lower threshold is above its upper one
CrossedStocks ==
    << [symbol |-> "MSFT", name |-> "Microsoft", upper_threshold |-> Some(2),
        lower_threshold |-> Some(3)] >>

\* a named instrument whose two thresholds are equal
EqualStocks ==
    << [symbol |-> "AAPL", name |-> "Apple", upper_threshold |-> Some(2),
        lower_threshold |-> Some(2)] >>

StockConfigs == ConfigsUpTo(MaxStocks) \cup {ScenarioStocks, CrossedStocks, EqualStocks}

PriceMaps ==
    UNION { [d -> {None} \cup {Some(v) : v \in PriceValues}] : d \in SUBSET Symbols }
    \cup {ScenarioPrices}

InitThreshold ==
    /\ StatusIdle
    /\ SummaryIdle
    /\ stocks \in StockConfigs
    /\ prices = << >>
    /\ checked = FALSE
    /\ violations = << >>
    /\ calls = << >>
    /\ ExtractIdle
    /\ ScraperIdle
    /\ FetcherIdle
    /\ FetchIdle
    /\ BatchIdle
    /\ SourceIdle
    /\ NotifierIdle
    /\ NotifyIdle
    /\ CycleIdle

CheckThresholds ==
    /\ ~checked
    /\ \E p \in PriceMaps :
         /\ prices' = p
         /\ violations' = check_thresholds(stocks, p)
    /\ checked' = TRUE
    /\ UNCHANGED << stocks, calls, exceptThreshold >>

NextThreshold == CheckThresholds

SpecThreshold == InitThreshold /\ [][NextThreshold]_vars

(***************************************************************************)
(* Repeated check_thresholds calls on one ThresholdChecker                 *)
(***************************************************************************)
MaxCalls == 2

\* one instrument at most, or one of the sample configurations
RepeatConfigs == ConfigsUpTo(1) \cup {ScenarioStocks, CrossedStocks}

\* CallCheckThresholds with the list kept on the object between calls
CallCheckThresholdsAccumulating ==
    /\ Len(calls) < MaxCalls
    /\ \E p \in PriceMaps :
         /\ prices' = p
         /\ violations' = violations \o check_thresholds(stocks, p)
         /\ calls' = Append(calls, [stocks |-> stocks, prices |-> p,
                                    result |-> violations \o check_thresholds(stocks, p)])
    /\ checked' = TRUE
    /\ UNCHANGED << stocks, exceptThreshold >>

\* lines 34-93, one more call on the same object: violations is a new
\* list (line 48), self.stocks and prices are only read.  stocks and
\* prices are the two objects as they are after the call; calls records
\* self.stocks before the call, the map as it was passed and the result
CallCheckThresholds ==
    /\ Len(calls) < MaxCalls
    /\ \E p \in PriceMaps :
         /\ prices' = p
         /\ violations' = check_thresholds(stocks, p)
         /\ calls' = Append(calls, [stocks |-> stocks, prices |-> p,
                                    result |-> check_thresholds(stocks, p)])
    /\ checked' = TRUE
    /\ UNCHANGED << stocks, exceptThreshold >>

InitRepeat ==
    /\ StatusIdle
    /\ SummaryIdle
    /\ stocks \in RepeatConfigs
    /\ prices = << >>
    /\ checked = FALSE
    /\ violations = << >>
    /\ calls = << >>
    /\ ExtractIdle
    /\ SourceIdle
    /\ ScraperIdle
    /\ FetcherIdle
    /\ FetchIdle
    /\ BatchIdle
    /\ NotifierIdle
    /\ NotifyIdle
    /\ CycleIdle

NextRepeat == CallCheckThresholds

SpecRepeat == InitRepeat /\ [][NextRepeat]_vars

(***************************************************************************)
(* EmailNotifier.send_alert and EmailNotifier.send_daily_summary           *)
(*                                                                         *)
(* What happens when the message is built and sent is a delivery: the      *)
(* first step that raises, or "sent".  A call ends as a record             *)
(*   exc        : an exception left the call                               *)
(*   ret        : the value returned otherwise                             *)
(*   connection : the SMTP class a connection was opened with, "" if none  *)
(*   sent       : server.send_message completed                            *)
(***************************************************************************)
\* os.getenv of a mail variable: unset, set to the empty string, set
MailSettings == {None, Some(""), Some("set")}

SmtpPorts == {465, 587}

\* lines 18-23
NotifierObjects ==
    { [smtp_port |-> p, sender_email |-> s, sender_password |-> w,
       recipient_email |-> r] :
        p \in SmtpPorts, s \in MailSettings, w \in MailSettings, r \in MailSettings }

\* truth value of an Optional string: None and '' are false
IsSet(setting) == setting # None /\ Val(setting) # ""

\* lines 39 and 108: all([sender_email, sender_password, recipient_email])
configured(n) ==
    IsSet(n.sender_email) /\ IsSet(n.sender_password) /\ IsSet(n.recipient_email)

Deliveries ==
    {"build raises", "connect raises", "starttls raises", "login raises",
     "send raises", "sent"}

\* line 56: SMTP_SSL for port 465, SMTP with STARTTLS otherwise
SmtpClass(n) == IF n.smtp_port = 465 THEN "SMTP_SSL" ELSE "SMTP"

\* starttls is only called on a plain SMTP connection (line 62)
DeliveryRaises(n, delivery) ==
    /\ delivery # "sent"
    /\ ~(delivery = "starttls raises" /\ n.smtp_port = 465)

\* lines 44-67 and 113-136, the body of the try
deliver(n, delivery) ==
    [exc |-> DeliveryRaises(n, delivery),
     ret |-> TRUE,
     connection |-> IF delivery = "build raises" THEN "" ELSE SmtpClass(n),
     sent |-> ~DeliveryRaises(n, delivery)]

NoMail(ret) == [exc |-> FALSE, ret |-> ret, connection |-> "", sent |-> FALSE]

\* send_mail without its try / except
send_mail_unguarded(n, items, delivery) ==
    IF items = << >> THEN NoMail(TRUE)
    ELSE IF ~configured(n) THEN NoMail(FALSE)
    ELSE deliver(n, delivery)

\* the body shared by send_alert and send_daily_summary: the empty list,
\* the configuration test, then try / except Exception around the rest
send_mail(n, items, delivery) ==
    IF items = << >> THEN NoMail(TRUE)
    ELSE IF ~configured(n) THEN NoMail(FALSE)
    ELSE LET outcome == deliver(n, delivery)
         IN IF outcome.exc
            THEN [exc |-> FALSE, ret |-> FALSE,
                  connection |-> outcome.connection, sent |-> FALSE]
            ELSE outcome

\* lines 25-71
send_alert(n, violation_list, delivery) == send_mail(n, violation_list, delivery)

\* lines 94-140
send_daily_summary(n, stocks_data, delivery) == send_mail(n, stocks_data, delivery)

(***************************************************************************)
(* Specification of one call on an EmailNotifier                           *)
(***************************************************************************)
\* the list passed (violations or stocks_data), its entries named by symbol
MailLists == {<< >>, << "AAPL" >>, << "AAPL", "MSFT" >>}

InitNotify ==
    /\ StatusIdle
    /\ SummaryIdle
    /\ notifier \in NotifierObjects
    /\ NotifyIdle
    /\ ExtractIdle
    /\ SourceIdle
    /\ ScraperIdle
    /\ FetcherIdle
    /\ FetchIdle
    /\ BatchIdle
    /\ ThresholdIdle
    /\ CycleIdle

SendAlert ==
    /\ nmethod = ""
    /\ \E items \in MailLists, delivery \in Deliveries :
         /\ nitems' = items
         /\ ndelivery' = delivery
         /\ noutcome' = Some(send_alert(notifier, items, delivery))
    /\ nmethod' = "send_alert"
    /\ UNCHANGED exceptNotify

SendDailySummary ==
    /\ nmethod = ""
    /\ \E items \in MailLists, delivery \in Deliveries :
         /\ nitems' = items
         /\ ndelivery' = delivery
         /\ noutcome' = Some(send_daily_summary(notifier, items, delivery))
    /\ nmethod' = "send_daily_summary"
    /\ UNCHANGED exceptNotify

NextNotify ==
    \/ SendAlert
    \/ SendDailySummary

SpecNotify == InitNotify /\ [][NextNotify]_vars

(***************************************************************************)
(* ThresholdChecker.load_stocks and get_tracked_symbols                    *)
(***************************************************************************)
\* what the config file can be: absent; present but not readable; not
\* JSON; JSON whose top level is not an object; an object without the key
\* 'stocks'; an object whose 'stocks' is a list of instruments
FileKinds ==
    {"missing", "unreadable", "invalid json", "not an object", "no stocks key",
     "stocks"}

\* the kinds that make open, json.load or data.get raise
RaisingKinds == {"unreadable", "invalid json", "not an object"}

\* lines 20-32: exc says an exception left the call, val is the list
load_stocks(file) ==
    IF file.kind = "missing" THEN [exc |-> FALSE, val |-> << >>]
    ELSE IF file.kind \in RaisingKinds THEN [exc |-> FALSE, val |-> << >>]
    ELSE IF file.kind = "no stocks key" THEN [exc |-> FALSE, val |-> << >>]
    ELSE [exc |-> FALSE, val |-> file.stocks]

\* an instrument has a symbol unless the key is absent or empty
HasSymbol(stock) == stock.symbol # ""

\* lines 95-97: the symbols of the instruments that have one, in order
get_tracked_symbols(configs) ==
    LET tracked == SelectSeq(configs, HasSymbol)
    IN [i \in DOMAIN tracked |-> tracked[i].symbol]

(***************************************************************************)
(* StockTracker: construction and check_stocks                             *)
(***************************************************************************)
\* instruments whose threshold lies between the prices the quote API
\* delivers, and an entry without a symbol
TrackedInstruments ==
    { [symbol |-> "AAPL", name |-> "", upper_threshold |-> Some(8),
       lower_threshold |-> None],
      [symbol |-> "MSFT", name |-> "Microsoft", upper_threshold |-> None,
       lower_threshold |-> Some(8)],
      [symbol |-> "", name |-> "", upper_threshold |-> Some(8),
       lower_threshold |-> Some(8)] }

RECURSIVE TrackedConfigsOfLen(_)
TrackedConfigsOfLen(n) ==
    IF n = 0 THEN {<< >>}
    ELSE {<< i >> \o c : i \in TrackedInstruments, c \in TrackedConfigsOfLen(n - 1)}

RECURSIVE TrackedConfigsUpTo(_)
TrackedConfigsUpTo(n) ==
    IF n = 0 THEN TrackedConfigsOfLen(0)
    ELSE TrackedConfigsOfLen(n) \cup TrackedConfigsUpTo(n - 1)

ConfigFiles ==
    { [kind |-> k, stocks |-> << >>] : k \in FileKinds \ {"stocks"} }
    \cup { [kind |-> "stocks", stocks |-> c] : c \in TrackedConfigsUpTo(MaxStocks) }

\* a notifier with a complete configuration, and one without
TrackerNotifiers ==
    { [smtp_port |-> 587, sender_email |-> Some("set"),
       sender_password |-> Some("set"), recipient_email |-> Some("set")],
      [smtp_port |-> 587, sender_email |-> Some("set"),
       sender_password |-> None, recipient_email |-> Some("set")] }

\* lines 36-41: the tracker is built; the checker loads the config file
Construct ==
    /\ cpc = "new"
    /\ stocks' = load_stocks(configFile).val
    /\ cpc' = IF load_stocks(configFile).exc THEN "raised" ELSE "idle"
    /\ last_prices' = << >>
    /\ UNCHANGED << configFile, alerted, alertArgs, prices, checked, violations, calls,
                    fetchVars, batchVars, exceptCycle >>

\* CheckStocksStart without the return at an empty symbol list
CheckStocksStartNoReturn ==
    /\ cpc \in {"idle", "done", "raised"}
    /\ EnterGetMultiplePrices(get_tracked_symbols(stocks))
    /\ cpc' = "fetching"
    /\ prices' = << >>
    /\ checked' = FALSE
    /\ violations' = << >>
    /\ alerted' = None
    /\ alertArgs' = << >>
    /\ UNCHANGED << configFile, last_prices, stocks, calls, earlier,
                    fetchVars, exceptCycle >>

\* lines 43-61: a cycle starts (the first one, or a later one of the
\* scheduler; the scheduler runs one instance of a job at a time).  With no
\* symbol to track it returns at once; otherwise it calls
\* get_multiple_prices with the tracked symbols
CheckStocksStart ==
    /\ cpc \in {"idle", "done", "raised"}
    /\ IF get_tracked_symbols(stocks) = << >>
       THEN /\ cpc' = "done"
            /\ UNCHANGED << configFile, last_prices, alerted, alertArgs, thresholdVars,
                            fetchVars, batchVars, exceptCycle >>
       ELSE /\ EnterGetMultiplePrices(get_tracked_symbols(stocks))
            /\ cpc' = "fetching"
            /\ prices' = << >>
            /\ checked' = FALSE
            /\ violations' = << >>
            /\ alerted' = None
            /\ alertArgs' = << >>
            /\ UNCHANGED << configFile, last_prices, stocks, calls, earlier,
                            fetchVars, exceptCycle >>

\* lines 61-64: get_multiple_prices has returned; its dict becomes
\* self.last_prices in one assignment
CheckStocksStore ==
    /\ cpc = "fetching"
    /\ bpc = "returned"
    /\ last_prices' = bprices
    /\ cpc' = "cached"
    /\ UNCHANGED << configFile, alerted, alertArgs, thresholdVars, fetchVars,
                    batchVars, exceptCycle >>

\* CheckStocksFinish calling send_alert whatever the list holds
CheckStocksFinishAlwaysAlerts ==
    /\ cpc = "cached"
    /\ prices' = bprices
    /\ violations' = check_thresholds(stocks, bprices)
    /\ checked' = TRUE
    /\ \E delivery \in Deliveries :
         LET outcome == send_alert(notifier, check_thresholds(stocks, bprices),
                                   delivery)
         IN /\ alerted' = Some(outcome)
            /\ alertArgs' = Append(alertArgs, check_thresholds(stocks, bprices))
            /\ cpc' = IF outcome.exc THEN "raised" ELSE "done"
    /\ UNCHANGED << configFile, last_prices, stocks, calls, fetchVars, batchVars,
                    exceptCycle >>

\* lines 66-79: the console summary is printed (it changes no state), the
\* thresholds are checked with the map that was fetched and the
\* violations, if any, are handed to send_alert, whose return value is not
\* used
CheckStocksFinish ==
    /\ cpc = "cached"
    /\ prices' = bprices
    /\ violations' = check_thresholds(stocks, bprices)
    /\ checked' = TRUE
    /\ IF check_thresholds(stocks, bprices) # << >>
       THEN \E delivery \in Deliveries :
              LET outcome == send_alert(notifier, check_thresholds(stocks, bprices),
                                        delivery)
              IN /\ alerted' = Some(outcome)
                 /\ alertArgs' = Append(alertArgs, check_thresholds(stocks, bprices))
                 /\ cpc' = IF outcome.exc THEN "raised" ELSE "done"
       ELSE /\ alerted' = None
            /\ alertArgs' = alertArgs
            /\ cpc' = "done"
    /\ UNCHANGED << configFile, last_prices, stocks, calls, fetchVars, batchVars,
                    exceptCycle >>

\* line 61 is in no try: an exception of get_multiple_prices leaves
\* check_stocks too
CheckStocksAbort ==
    /\ cpc = "fetching"
    /\ bpc = "raised"
    /\ cpc' = "raised"
    /\ UNCHANGED << configFile, last_prices, alerted, alertArgs, thresholdVars, fetchVars,
                    batchVars, exceptCycle >>

InitCycle ==
    /\ StatusIdle
    /\ SummaryIdle
    /\ configFile \in ConfigFiles
    /\ cpc = "new"
    /\ last_prices = << >>
    /\ alerted = None
    /\ alertArgs = << >>
    /\ \E f \in FetcherObjects :
         /\ use_web_scraping = f.use_web_scraping
         /\ web_scraper = f.web_scraper
    /\ notifier \in TrackerNotifiers
    /\ ThresholdIdle
    /\ FetchIdle
    /\ BatchIdle
    /\ ExtractIdle
    /\ SourceIdle
    /\ ScraperIdle
    /\ NotifyIdle

NextCycle ==
    \/ Construct
    \/ CheckStocksStart
    \/ CheckStocksStore
    \/ CheckStocksFinish
    \/ CheckStocksAbort
    \/ BatchFetch
    \/ BatchStore
    \/ BatchPropagate
    \/ ScrapeFirst
    \/ AttemptStart
    \/ HistoryPeriod
    \/ InfoFallback
    \/ NoDataBackoff
    \/ ErrorBackoff
    \/ GiveUp

SpecCycle == InitCycle /\ [][NextCycle]_vars

(***************************************************************************)
(* StockTracker.send_daily_summary and the jobs of StockTracker.run        *)
(***************************************************************************)
\* lines 95-103: the entry of stocks_data for one instrument; dict.get
\* gives None for a symbol that is no key of the map
stock_info(stock_config, p) ==
    [symbol |-> stock_config.symbol,
     name |-> stock_config.name,
     price |-> IF stock_config.symbol \in DOMAIN p THEN p[stock_config.symbol]
               ELSE None,
     upper_threshold |-> stock_config.upper_threshold,
     lower_threshold |-> stock_config.lower_threshold]

\* lines 93-104
build_stocks_data(configs, p) == [i \in DOMAIN configs |-> stock_info(configs[i], p)]

\* lines 81-90: the call reads self.last_prices once into its local prices
\* and returns at once when the map is empty
DailySummaryStart ==
    /\ cpc # "new"
    /\ dpc = "idle"
    /\ sprices' = last_prices
    /\ summaryCalls' = << >>
    /\ dpc' = IF last_prices = << >> THEN "idle" ELSE "read"
    /\ UNCHANGED exceptSummary

\* DailySummarySend emptying the cache once the summary is handed over
DailySummarySendConsumesCache ==
    /\ dpc = "read"
    /\ \E delivery \in Deliveries :
         summaryCalls' = Append(summaryCalls,
             [stocks_data |-> build_stocks_data(stocks, sprices),
              outcome |-> send_daily_summary(notifier,
                              build_stocks_data(stocks, sprices), delivery)])
    /\ dpc' = "idle"
    /\ last_prices' = << >>
    /\ UNCHANGED << sprices, configFile, cpc, alerted, alertArgs,
                    extractVars, sourceVars, scraperVars, fetcherVars, fetchVars,
                    batchVars, thresholdVars, notifierVars, notifyVars, statusVars >>

\* lines 92-108: stocks_data is built from the checker's instruments and
\* the local map and handed to EmailNotifier.send_daily_summary, which
\* builds and sends the mail or not and whose return value is not used
DailySummarySend ==
    /\ dpc = "read"
    /\ \E delivery \in Deliveries :
         summaryCalls' = Append(summaryCalls,
             [stocks_data |-> build_stocks_data(stocks, sprices),
              outcome |-> send_daily_summary(notifier,
                              build_stocks_data(stocks, sprices), delivery)])
    /\ dpc' = "idle"
    /\ UNCHANGED << sprices, exceptSummary >>

\* the configurations of the tracker in the specification of run: two
\* tracked instruments, and one tracked instrument with an entry that has
\* no symbol
RunConfigs ==
    { << [symbol |-> "AAPL", name |-> "", upper_threshold |-> Some(8),
          lower_threshold |-> None],
         [symbol |-> "MSFT", name |-> "Microsoft", upper_threshold |-> None,
          lower_threshold |-> Some(8)] >>,
      << [symbol |-> "", name |-> "", upper_threshold |-> Some(8),
          lower_threshold |-> Some(8)],
         [symbol |-> "AAPL", name |-> "", upper_threshold |-> Some(8),
          lower_threshold |-> None] >> }

\* lines 153-184: run calls check_stocks, then send_daily_summary, then
\* starts the scheduler with the two interval jobs.  The scheduler runs a
\* job in a thread of its pool, one instance of a job at a time, so a
\* check cycle and a daily summary may overlap at any point while two
\* check cycles never do; the two calls at startup are one of these orders.
InitRun ==
    /\ StatusIdle
    /\ SummaryIdle
    /\ configFile \in { [kind |-> "missing", stocks |-> << >>] }
                      \cup { [kind |-> "stocks", stocks |-> c] : c \in RunConfigs }
    /\ cpc = "new"
    /\ last_prices = << >>
    /\ alerted = None
    /\ alertArgs = << >>
    /\ \E f \in FetcherObjects :
         /\ use_web_scraping = f.use_web_scraping
         /\ web_scraper = f.web_scraper
    /\ notifier \in TrackerNotifiers
    /\ ThresholdIdle
    /\ FetchIdle
    /\ BatchIdle
    /\ ExtractIdle
    /\ SourceIdle
    /\ ScraperIdle
    /\ NotifyIdle

NextRun ==
    \/ Construct
    \/ CheckStocksStart
    \/ CheckStocksStore
    \/ CheckStocksFinish
    \/ CheckStocksAbort
    \/ DailySummaryStart
    \/ DailySummarySend
    \/ BatchFetch
    \/ BatchStore
    \/ BatchPropagate
    \/ ScrapeFirst
    \/ AttemptStart
    \/ HistoryPeriod
    \/ InfoFallback
    \/ NoDataBackoff
    \/ ErrorBackoff
    \/ GiveUp

SpecRun == InitRun /\ [][NextRun]_vars

(***************************************************************************)
(* The alert status in EmailNotifier._build_summary_html and in            *)
(* StockTracker._display_price_summary                                     *)
(***************************************************************************)
\* "upper and upper > 0" (email_notifier.py lines 219 and 225, main.py
\* lines 140 and 142): None and 0 are false, then the sign is tested
threshold_set(threshold) ==
    threshold # None /\ Val(threshold) # 0 /\ Val(threshold) > 0

\* html_is_alert with > and < in place of >= and <=
html_is_alert_strict(stock) ==
    IF stock.price = None THEN FALSE
    ELSE IF threshold_set(stock.upper_threshold)
            /\ Val(stock.price) > Val(stock.upper_threshold) THEN TRUE
    ELSE IF threshold_set(stock.lower_threshold)
            /\ Val(stock.price) < Val(stock.lower_threshold) THEN TRUE
    ELSE FALSE

\* email_notifier.py lines 223-228: is_alert of one entry of stocks_data
html_is_alert(stock) ==
    IF stock.price = None THEN FALSE
    ELSE IF threshold_set(stock.upper_threshold)
            /\ Val(stock.price) >= Val(stock.upper_threshold) THEN TRUE
    ELSE IF threshold_set(stock.lower_threshold)
            /\ Val(stock.price) <= Val(stock.lower_threshold) THEN TRUE
    ELSE FALSE

\* email_notifier.py lines 230-238: the line of one entry
html_line(stock) ==
    [display_name |-> display_name(stock),
     price |-> stock.price,
     status |-> IF stock.price = None THEN "N/A"
                ELSE IF html_is_alert(stock) THEN "[ALERT]" ELSE "[OK]",
     class |-> IF html_is_alert(stock) THEN "stock-alert" ELSE "stock-ok"]

\* email_notifier.py lines 207-238
build_summary_html(stocks_data) ==
    [i \in DOMAIN stocks_data |-> html_line(stocks_data[i])]

\* main.py lines 137-143
is_within_thresholds(stock_config, price) ==
    /\ ~(threshold_set(stock_config.upper_threshold)
         /\ price >= Val(stock_config.upper_threshold))
    /\ ~(threshold_set(stock_config.lower_threshold)
         /\ price <= Val(stock_config.lower_threshold))

\* main.py lines 124-149: the line printed for an instrument with a price
display_line(stock_config, price) ==
    [display_name |-> display_name(stock_config),
     price |-> price,
     status |-> IF is_within_thresholds(stock_config, price) THEN "[OK]"
                ELSE "[ALERT]"]

\* main.py lines 114-149: an instrument without a price prints nothing
RECURSIVE display_price_summary(_, _)
display_price_summary(configs, p) ==
    IF configs = << >> THEN << >>
    ELSE (IF has_price(p, Head(configs).symbol)
          THEN << display_line(Head(configs), Val(p[Head(configs).symbol])) >>
          ELSE << >>)
         \o display_price_summary(Tail(configs), p)

\* one instrument at most, or one of the sample configurations
StatusConfigs == ConfigsUpTo(1) \cup {ScenarioStocks, CrossedStocks, EqualStocks}

\* check_thresholds, _display_price_summary and _build_summary_html are
\* applied to the same instruments and the same price map: check_stocks
\* passes its map to the first two (lines 67 and 70), send_daily_summary
\* builds stocks_data for the third from the cached map
InitStatus ==
    /\ stocks \in StatusConfigs
    /\ prices = << >>
    /\ checked = FALSE
    /\ violations = << >>
    /\ calls = << >>
    /\ StatusIdle
    /\ SummaryIdle
    /\ ExtractIdle
    /\ ScraperIdle
    /\ FetcherIdle
    /\ FetchIdle
    /\ BatchIdle
    /\ SourceIdle
    /\ NotifierIdle
    /\ NotifyIdle
    /\ CycleIdle

DisplayPriceSummary ==
    /\ checked
    /\ displayed = None
    /\ displayed' = Some(display_price_summary(stocks, prices))
    /\ UNCHANGED << htmlLines, exceptStatus >>

BuildSummaryHtml ==
    /\ checked
    /\ htmlLines = None
    /\ htmlLines' = Some(build_summary_html(build_stocks_data(stocks, prices)))
    /\ UNCHANGED << displayed, exceptStatus >>

NextStatus ==
    \/ CheckThresholds
    \/ DisplayPriceSummary
    \/ BuildSummaryHtml

SpecStatus == InitStatus /\ [][NextStatus]_vars

(***************************************************************************)
(* Properties of get_stock_price (SpecFetch)                               *)
(***************************************************************************)
\* C1: get_stock_price never raises to its caller: in API-only mode and in
\* scraping-first mode alike the call ends by returning (a price or None),
\* and in scraping-first mode the scraper has run before it returns.
C1_NeverRaises ==
    /\ fpc # "raised"
    /\ fexc = ""
    /\ (fpc = "returned" /\ use_web_scraping /\ web_scraper => scraperCalled)

\* the call returned from its third attempt, with retry_count = 3, a price
\* the quote API delivered: the first two attempts had failed
ThirdAttemptSucceeded ==
    /\ fpc = "returned"
    /\ retry_count = 3
    /\ attempt = 2
    /\ quoteGiven # None

\* C2 as stated: when the quote API fails on the first 2 attempts and
\* succeeds on the 3rd, get_stock_price(retry_count=3) returns the value
\* delivered, 2 retries were consumed, and the wait immediately before the
\* 3rd attempt was 4 seconds.
C2_WaitBeforeThirdIsFour ==
    ThirdAttemptSucceeded =>
        /\ fresult = quoteGiven
        /\ Len(sleeps) = 2
        /\ sleeps[Len(sleeps)] = 4

\* C2 as amended: in the same case the value delivered is returned, 2
\* retries were consumed, and the waits were 1 second before the 2nd
\* attempt and 2 seconds immediately before the 3rd.
C2_WaitBeforeThirdIsTwo ==
    ThirdAttemptSucceeded =>
        /\ fresult = quoteGiven
        /\ Len(sleeps) = 2
        /\ sleeps = << 1, 2 >>

C2_Witness ==
    /\ ThirdAttemptSucceeded
    /\ fresult = Some(9)
    /\ sleeps # << >>

\* the call has returned without the scraper or the quote API having
\* delivered a price: every attempt it made has failed
AllAttemptsFailed ==
    /\ fpc = "returned"
    /\ quoteGiven = None
    /\ ~scraperCalled

\* 2^0, 2^1, 2^2, ...
PowersOfTwo == << 1, 2, 4, 8, 16 >>

AtLeastZero(n) == IF n < 0 THEN 0 ELSE n

\* C19: on the quote-API path, when every attempt fails (no data or an
\* exception), exactly retry_count attempts are made, the sleep after the
\* failed attempt k (k = 0 .. retry_count-2) is 2^k seconds, no sleep
\* follows the last attempt and the call returns None; with
\* retry_count <= 0 there is no attempt and no sleep and None is returned.
C19_BackoffSchedule ==
    /\ sleeps = SubSeq(PowersOfTwo, 1, Len(sleeps))
    /\ (AllAttemptsFailed =>
            /\ fresult = None
            /\ attempt = AtLeastZero(retry_count)
            /\ Len(sleeps) = AtLeastZero(retry_count - 1))
    /\ (fpc = "returned" /\ retry_count <= 0 /\ ~scraperCalled =>
            /\ attempt = 0
            /\ windows = << >>
            /\ ~infoRead
            /\ sleeps = << >>
            /\ fresult = None)

\* three attempts have failed: sleeps of 1 and 2 seconds, none after the
\* third
C19_Witness ==
    /\ AllAttemptsFailed
    /\ retry_count = 3
    /\ attempt = 3
    /\ sleeps = << 1, 2 >>
    /\ fresult = None

\* C20: within one attempt the windows are queried in the order 1d, 5d,
\* 1mo; the first window with a non-empty series ends the fetch with its
\* most recent close, with no later window, no metadata lookup and no
\* sleep; a window that raises or is empty leads to the next window of the
\* same attempt without a sleep and without consuming a retry.
C20_WindowsInOrder ==
    /\ windows = SubSeq(<< "1d", "5d", "1mo" >>, 1, Len(windows))
    /\ (fpc = "period" => Len(windows) = period - 1 /\ ~infoRead)
    /\ (fpc \in {"period", "info"} => Len(sleeps) = attempt)
    /\ (fpc = "info" \/ infoRead => Len(windows) = 3)
    /\ (fpc = "returned" /\ quoteGiven # None =>
            /\ fresult = quoteGiven
            /\ windows # << >>
            /\ Len(sleeps) = attempt
            /\ attempt < retry_count)
    /\ (fpc = "returned" /\ quoteGiven # None /\ Len(windows) < 3 => ~infoRead)

\* the second attempt got a price from its second window
C20_Witness ==
    /\ fpc = "returned"
    /\ attempt = 1
    /\ windows = << "1d", "5d" >>
    /\ ~infoRead
    /\ fresult = Some(7)
    /\ sleeps = << 1 >>

(***************************************************************************)
(* Properties of _extract_price (SpecExtract)                              *)
(***************************************************************************)
\* a numeral with both separators: only digits, '.' and ',', both
\* separators present, a digit at each end and next to each separator
BothSeparators(t) ==
    /\ t # << >>
    /\ \A i \in 1..Len(t) : IsDigit(t[i]) \/ IsSep(t[i])
    /\ Contains(t, ".") /\ Contains(t, ",")
    /\ IsDigit(t[1]) /\ IsDigit(t[Len(t)])
    /\ \A i \in 1..(Len(t) - 1) : ~(IsSep(t[i]) /\ IsSep(t[i + 1]))

LastSeparator(t) == IF RIndex(t, ",") > RIndex(t, ".") THEN RIndex(t, ",") ELSE RIndex(t, ".")

\* the digits of t in order, as a number
AllDigitsValue(t) == DigitsValue(SelectSeq(t, IsDigit))

\* C3: _extract_price disambiguates separators: with both '.' and ',' in
\* the text the one occurring last is the decimal separator and the other
\* is dropped, so "1.234,56 EUR" and "1,234.56" give 1234.56; "175,50"
\* gives 175.50; "not a price" gives None.
C3_LastSeparatorIsDecimal ==
    extractDone =>
        /\ (text = TextEuropean => extracted = Some(Decimal(123456, 2)))
        /\ (text = TextAmerican => extracted = Some(Decimal(123456, 2)))
        /\ (text = TextCommaOnly => extracted = Some(Decimal(17550, 2)))
        /\ (text = TextNoDigits => extracted = None)
        /\ (BothSeparators(text) =>
               extracted = Some(Decimal(AllDigitsValue(text),
                                        Len(text) - LastSeparator(text))))

(***************************************************************************)
(* Properties of check_thresholds (SpecThreshold)                          *)
(***************************************************************************)
\* the symbols that occur in the configuration or among the prices
SeenSymbols == Symbols \cup {stocks[i].symbol : i \in DOMAIN stocks}

PricePresent(s) == s \in DOMAIN prices /\ prices[s] # None

\* the violations of one kind returned for a symbol at a threshold value
ViolationsAt(s, type, t) ==
    {k \in DOMAIN violations :
        /\ violations[k].symbol = s
        /\ violations[k].threshold_type = type
        /\ violations[k].threshold = t}

UpperValues == {Val(stocks[i].upper_threshold) :
                  i \in {j \in DOMAIN stocks : stocks[j].upper_threshold # None}}

LowerValues == {Val(stocks[i].lower_threshold) :
                  i \in {j \in DOMAIN stocks : stocks[j].lower_threshold # None}}

\* C4: for an instrument with a present price p there is exactly one
\* 'upper' violation if its upper threshold is set, > 0 and p >= it
\* (p equal to it included), and none otherwise; counted per symbol and
\* threshold value, an instrument declared twice counting twice.
C4_UpperIffReached ==
    checked =>
        /\ \A s \in SeenSymbols : \A t \in UpperValues :
             PricePresent(s) =>
                Cardinality(ViolationsAt(s, "upper", t)) =
                    IF t > 0 /\ Val(prices[s]) >= t
                    THEN Cardinality({i \in DOMAIN stocks :
                                        /\ stocks[i].symbol = s
                                        /\ stocks[i].upper_threshold = Some(t)})
                    ELSE 0
        /\ \A k \in DOMAIN violations :
             violations[k].threshold_type = "upper" =>
                /\ violations[k].threshold \in UpperValues
                /\ violations[k].current_price = Val(prices[violations[k].symbol])

C4_Witness ==
    /\ checked
    /\ \E i \in DOMAIN stocks :
         /\ PricePresent(stocks[i].symbol)
         /\ stocks[i].upper_threshold = prices[stocks[i].symbol]
         /\ \E k \in DOMAIN violations :
              /\ violations[k].symbol = stocks[i].symbol
              /\ violations[k].threshold_type = "upper"
    /\ \E i \in DOMAIN stocks :
         /\ PricePresent(stocks[i].symbol)
         /\ stocks[i].upper_threshold = Some(0)

\* C5: for an instrument with a present price p there is exactly one
\* 'lower' violation if its lower threshold is set, > 0 and p <= it
\* (p equal to it included), and none otherwise; counted per symbol and
\* threshold value, an instrument declared twice counting twice.
C5_LowerIffReached ==
    checked =>
        /\ \A s \in SeenSymbols : \A t \in LowerValues :
             PricePresent(s) =>
                Cardinality(ViolationsAt(s, "lower", t)) =
                    IF t > 0 /\ Val(prices[s]) <= t
                    THEN Cardinality({i \in DOMAIN stocks :
                                        /\ stocks[i].symbol = s
                                        /\ stocks[i].lower_threshold = Some(t)})
                    ELSE 0
        /\ \A k \in DOMAIN violations :
             violations[k].threshold_type = "lower" =>
                /\ violations[k].threshold \in LowerValues
                /\ violations[k].current_price = Val(prices[violations[k].symbol])

C5_Witness ==
    /\ checked
    /\ \E i \in DOMAIN stocks :
         /\ PricePresent(stocks[i].symbol)
         /\ stocks[i].lower_threshold = prices[stocks[i].symbol]
         /\ \E k \in DOMAIN violations :
              /\ violations[k].symbol = stocks[i].symbol
              /\ violations[k].threshold_type = "lower"
    /\ \E i \in DOMAIN stocks :
         /\ PricePresent(stocks[i].symbol)
         /\ stocks[i].lower_threshold = Some(0 - 1)

\* C6: an instrument whose symbol is not a key of the price map, or whose
\* price is None, yields no violation whatever its thresholds: a missing
\* price is not evaluated as 0.
C6_MissingPriceNoViolation ==
    checked =>
        \A s \in SeenSymbols :
            (s \notin DOMAIN prices \/ prices[s] = None) =>
                \A k \in DOMAIN violations : violations[k].symbol # s

C6_Witness ==
    /\ checked
    /\ \E i \in DOMAIN stocks :
         /\ stocks[i].symbol \notin DOMAIN prices
         /\ stocks[i].lower_threshold = Some(2)
    /\ \E i \in DOMAIN stocks :
         /\ stocks[i].symbol \in DOMAIN prices
         /\ prices[stocks[i].symbol] = None
         /\ stocks[i].lower_threshold = Some(2)

\* what the claim expects of the instruments from index i on: declaration
\* order, and within an instrument upper before lower
RECURSIVE ExpectedFrom(_)
ExpectedFrom(i) ==
    IF i > Len(stocks) THEN << >>
    ELSE LET c == stocks[i]
             up == c.upper_threshold
             lo == c.lower_threshold
         IN IF ~PricePresent(c.symbol) THEN ExpectedFrom(i + 1)
            ELSE LET p == Val(prices[c.symbol])
                 IN (IF up # None /\ Val(up) > 0 /\ p >= Val(up)
                     THEN << << c.symbol, "upper", p >> >> ELSE << >>)
                    \o (IF lo # None /\ Val(lo) > 0 /\ p <= Val(lo)
                        THEN << << c.symbol, "lower", p >> >> ELSE << >>)
                    \o ExpectedFrom(i + 1)

Summary(v) == << v.symbol, v.threshold_type, v.current_price >>

\* C7: the list returned follows the declaration order of the instruments
\* and, for one instrument, has the upper violation before the lower one
\* (both can be present); for AAPL 200/150, MSFT 0/300 and prices
\* AAPL 205, MSFT 295 it is exactly [AAPL upper, MSFT lower].
C7_DeclarationOrder ==
    checked =>
        /\ [k \in DOMAIN violations |-> Summary(violations[k])] = ExpectedFrom(1)
        /\ (stocks = ScenarioStocks /\ prices = ScenarioPrices =>
               [k \in DOMAIN violations |-> Summary(violations[k])]
                   = << << "AAPL", "upper", 205 >>, << "MSFT", "lower", 295 >> >>)

C7_Witness ==
    /\ checked
    /\ Len(violations) >= 3
    /\ \E k \in 1..(Len(violations) - 1) :
         /\ violations[k].symbol = violations[k + 1].symbol
         /\ violations[k].threshold_type = "upper"
         /\ violations[k + 1].threshold_type = "lower"
    /\ \E k \in DOMAIN violations : violations[k].symbol # violations[1].symbol

\* t occurs in s as a contiguous run of pieces
IsInfix(t, s) ==
    \E i \in 0..(Len(s) - Len(t)) : \A j \in 1..Len(t) : s[i + j] = t[j]

\* the name and symbol as the claim expects them in the message
NameText(v) == IF v.name # "" THEN << v.name, " (", v.symbol, ")" >> ELSE << v.symbol >>

\* the verb that tells the kind
KindText(type) == IF type = "upper" THEN " reached $" ELSE " dropped to $"

\* C18: the message of every violation embeds the instrument's name and
\* symbol, the current price and the threshold, both with 4 decimals, and
\* the kind of threshold ("reached" for upper, "dropped to" for lower);
\* the messages of an upper and of a lower violation with the same
\* instrument, price and threshold differ; for AAPL at 205 with upper
\* threshold 200 it is "AAPL reached $205.0000 (threshold: $200.0000)".
C18_MessageEmbeds ==
    checked =>
        /\ \A k \in DOMAIN violations :
             LET v == violations[k]
             IN /\ IsInfix(NameText(v), v.message)
                /\ IsInfix(Format4f(v.current_price), v.message)
                /\ IsInfix(<< " (threshold: $" >> \o Format4f(v.threshold), v.message)
                /\ IsInfix(<< KindText(v.threshold_type) >>, v.message)
                /\ ~IsInfix(<< KindText(IF v.threshold_type = "upper"
                                        THEN "lower" ELSE "upper") >>, v.message)
        /\ \A k \in DOMAIN violations : \A l \in DOMAIN violations :
             (violations[k].threshold_type # violations[l].threshold_type)
                 => violations[k].message # violations[l].message
        /\ (stocks = ScenarioStocks /\ prices = ScenarioPrices =>
               violations[1].message =
                   << "AAPL", " reached $", "2", "0", "5", ".", "0", "0", "0", "0",
                      " (threshold: $", "2", "0", "0", ".", "0", "0", "0", "0", ")" >>)

\* the named instrument with both thresholds at 2 and the price at 2: an
\* upper and a lower violation with the same price and threshold
C18_Witness ==
    /\ checked
    /\ stocks = EqualStocks
    /\ Len(violations) = 2
    /\ violations[1].threshold_type = "upper"
    /\ violations[2].threshold_type = "lower"
    /\ violations[1].current_price = violations[2].current_price
    /\ violations[1].threshold = violations[2].threshold
    /\ violations[1].message # violations[2].message

(***************************************************************************)
(* Properties of WebScraper.get_stock_price (SpecScraper)                  *)
(***************************************************************************)
IsKnownSource(s) == s \in KnownSources

\* the known sources among the first k of the list, in list order
KnownAmongFirst(k) == SelectSeq(SubSeq(sources, 1, k), IsKnownSource)

ContactedSources == [i \in DOMAIN contacted |-> contacted[i].source]

\* how many entries of the list the loop is done with
SourcesDone ==
    IF spc = "returned" /\ sresult # None THEN sidx ELSE sidx - 1

\* C8: the sources are consulted in exactly the caller-supplied order
\* (google, marketwatch, boursorama when none is supplied); the result is
\* the price of the first source that yields one, and no source after it
\* is contacted; with three sources of which the first two yield None and
\* the third 42.0, the result is 42.0.
C8_FirstPriceInOrder ==
    /\ (spc # "idle" /\ sourcesArg = None =>
            sources = << "google", "marketwatch", "boursorama" >>)
    /\ (spc # "idle" /\ sourcesArg # None => sources = Val(sourcesArg))
    /\ (spc # "idle" => ContactedSources = KnownAmongFirst(SourcesDone))
    /\ \A i \in 1..(Len(contacted) - 1) : contacted[i].price = None
    /\ (spc = "returned" =>
            sresult = IF contacted # << >> /\ contacted[Len(contacted)].price # None
                      THEN contacted[Len(contacted)].price
                      ELSE None)
    /\ (spc = "returned" /\ Len(contacted) = 3
            /\ contacted[3].price = Some(Decimal(420, 1)) =>
            sresult = Some(Decimal(42, 0)))

C8_Witness ==
    /\ spc = "returned"
    /\ sourcesArg = None
    /\ Len(contacted) = 3
    /\ contacted[1].price = None
    /\ contacted[2].price = None
    /\ contacted[3].price = Some(Decimal(42, 0))
    /\ sresult = Some(Decimal(42, 0))

\* C9: a source that fails in any way (transport exception, non-200
\* status, no matching element, unparsable text) yields None for that
\* source and no exception; the sources after it, and after an unknown
\* source name, are still tried; when every source yields None the call
\* returns None, and it never raises.
C9_FailureIsolated ==
    /\ \A i \in DOMAIN contacted :
         contacted[i].kind # "ok" => contacted[i].price = None /\ ~contacted[i].exc
    /\ (spc = "loop" => ContactedSources = KnownAmongFirst(sidx - 1))
    /\ (spc = "returned" /\ (\A i \in DOMAIN contacted : contacted[i].price = None) =>
            /\ sresult = None
            /\ ContactedSources = KnownAmongFirst(Len(sources)))
    /\ spc \in {"idle", "loop", "returned"}

C9_Witness ==
    /\ spc = "returned"
    /\ sresult = None
    /\ Len(sources) = 3
    /\ sources[1] \notin KnownSources
    /\ Len(contacted) = 2
    /\ contacted[1].kind = "transport"
    /\ contacted[2].kind = "unparsable"

(***************************************************************************)
(* Properties of get_multiple_prices (SpecBatch)                           *)
(***************************************************************************)
\* C10: get_multiple_prices called with N >= 1 symbols ends by returning
\* a map with exactly N keys after exactly N-1 pacing delays of 3
\* seconds, even if every fetch fails.
C10_PacingAndKeys ==
    bpc \in {"returned", "raised"} /\ Len(symbols) >= 1 =>
        /\ bpc = "returned"
        /\ delays = [i \in 1..(Len(symbols) - 1) |-> 3]
        /\ Cardinality(DOMAIN bprices) = Len(symbols)

\* the index of the last fetch of symbol s in this call
LastFetchOf(s) ==
    CHOOSE i \in DOMAIN symbols :
        symbols[i] = s /\ \A j \in (i + 1)..Len(symbols) : symbols[j] # s

\* C11: after get_multiple_prices(symbols) has returned, the keys of the
\* result are exactly the input symbols; the value of a symbol is what its
\* fetch (the last one, if the symbol is listed twice) returned in this
\* call: None exactly when that fetch produced no price, the fetched price
\* otherwise, never 0 for a failure and never the value an earlier call
\* had stored.
C11_KeysAndValues ==
    bpc = "returned" =>
        /\ DOMAIN bprices = {symbols[i] : i \in DOMAIN symbols}
        /\ Len(fetched) = Len(symbols)
        /\ \A s \in DOMAIN bprices :
             /\ bprices[s] = fetched[LastFetchOf(s)]
             /\ (fetched[LastFetchOf(s)] = None <=> bprices[s] = None)
             /\ (fetched[LastFetchOf(s)] = None => bprices[s] # Some(0))

\* a second call has returned: one symbol failed that had a price in the
\* earlier call, the other symbol has a price
C11_Witness ==
    /\ bpc = "returned"
    /\ DOMAIN bprices = {"AAPL", "MSFT"}
    /\ bprices["AAPL"] = None
    /\ bprices["MSFT"] = Some(9)
    /\ "AAPL" \in DOMAIN earlier
    /\ earlier["AAPL"] = Some(7)

(***************************************************************************)
(* Properties of check_stocks (SpecCycle)                                  *)
(***************************************************************************)
\* C12: one bad symbol never aborts the batch or the cycle: in API-only
\* and in scraping-first mode alike no exception leaves check_stocks, and
\* a cycle that tracks symbols ends with every symbol of the list fetched,
\* the price map cached and the thresholds evaluated with it.
C12_CycleNeverAborts ==
    /\ cpc # "raised"
    /\ (cpc = "done" /\ get_tracked_symbols(stocks) # << >> =>
            /\ Len(fetched) = Len(symbols)
            /\ symbols = get_tracked_symbols(stocks)
            /\ last_prices = bprices
            /\ checked
            /\ prices = bprices)

PageDelivered == ~siteResponse.raises /\ siteResponse.status = 200

\* the selectors that find an element with text
WithText == {i \in DOMAIN siteResponse.elems :
                siteResponse.elems[i] # None /\ Val(siteResponse.elems[i]) # << >>}

\* the price _extract_price gives for the text selector i finds
PriceAt(i) == extract_price(Val(siteResponse.elems[i]))

\* the selectors whose element text parses to a price other than 0
WithPrice == {i \in DOMAIN siteResponse.elems :
                 /\ siteResponse.elems[i] # None
                 /\ PriceAt(i) # None
                 /\ PriceAt(i) # Some(Decimal(0, 0))}

Least(S) == CHOOSE i \in S : \A j \in S : i <= j

\* C14 as stated: each source uses the first selector of its list that
\* finds an element with text; that text alone, passed to _extract_price,
\* is the result (None if it does not parse), later selectors are not
\* consulted; the source returns None if no selector matches.
C14_FirstTextDecides ==
    siteDone /\ PageDelivered =>
        /\ ~siteOutcome.exc
        /\ siteOutcome.val = IF WithText = {} THEN None ELSE PriceAt(Least(WithText))

\* C14 as amended: each source goes through its selectors in order and
\* passes the text of each element found to _extract_price; the first
\* selector whose text parses to a price other than 0 gives the result and
\* no later selector counts; a selector whose text does not parse, or
\* parses to 0, is passed over and the next one is consulted; the source
\* returns None if no selector gives such a price.
C14_FirstPriceDecides ==
    siteDone /\ PageDelivered =>
        /\ ~siteOutcome.exc
        /\ siteOutcome.val = IF WithPrice = {} THEN None ELSE PriceAt(Least(WithPrice))

\* the first selector finds "N/A", the second "42.0", the third "1,5"
C14_Witness ==
    /\ siteDone
    /\ PageDelivered
    /\ siteResponse.elems[1] = Some(<< "N", "/", "A" >>)
    /\ siteResponse.elems[2] = Some(<< "4", "2", ".", "0" >>)
    /\ siteResponse.elems[3] = Some(<< "1", ",", "5" >>)
    /\ siteOutcome.val = Some(Decimal(42, 0))

(***************************************************************************)
(* Properties of _extract_price called with any argument (SpecExtract)     *)
(***************************************************************************)
\* a text without a digit in it (the empty text is one)
NoDigitIn(t) == \A i \in DOMAIN t : ~IsDigit(t[i])

\* C15: _extract_price never raises to its caller: for every text (the
\* empty text, a text without digits, a text with several separators) and
\* for None it returns a float or None.
C15_ExtractNeverRaises ==
    extractDone =>
        /\ extractExc = ""
        /\ (~textGiven => extracted = None)
        /\ (textGiven /\ NoDigitIn(text) => extracted = None)
        /\ (textGiven /\ text = TextTabbed => extracted = None)
        /\ (extracted # None => Val(extracted).m \in Nat /\ Val(extracted).e \in Nat)

\* the call with None has returned None
C15_Witness ==
    /\ extractDone
    /\ ~textGiven
    /\ extractExc = ""
    /\ extracted = None

(***************************************************************************)
(* Properties of EmailNotifier (SpecNotify)                                *)
(***************************************************************************)
\* sender, password and recipient are all set to a non-empty string
MailConfigComplete ==
    /\ notifier.sender_email \notin {None, Some("")}
    /\ notifier.sender_password \notin {None, Some("")}
    /\ notifier.recipient_email \notin {None, Some("")}

\* nothing raised while the message was built and sent (starttls is not
\* called on port 465)
DeliveredFine ==
    \/ ndelivery = "sent"
    \/ ndelivery = "starttls raises" /\ notifier.smtp_port = 465

\* C16: send_alert and send_daily_summary never raise and return a
\* boolean: True for an empty list (nothing is sent) and when the message
\* was sent; False when the mail configuration is incomplete (no SMTP
\* connection is opened) and when building or sending the message raises.
C16_BooleanNeverRaises ==
    noutcome # None =>
        /\ ~Val(noutcome).exc
        /\ Val(noutcome).ret \in BOOLEAN
        /\ (nitems = << >> =>
                /\ Val(noutcome).ret
                /\ Val(noutcome).connection = ""
                /\ ~Val(noutcome).sent)
        /\ (nitems # << >> /\ ~MailConfigComplete =>
                /\ ~Val(noutcome).ret
                /\ Val(noutcome).connection = ""
                /\ ~Val(noutcome).sent)
        /\ (nitems # << >> /\ MailConfigComplete =>
                /\ Val(noutcome).ret = DeliveredFine
                /\ Val(noutcome).sent = DeliveredFine)

\* send_alert with a complete configuration: login raised and the call
\* returned False
C16_Witness ==
    /\ nmethod = "send_alert"
    /\ nitems # << >>
    /\ MailConfigComplete
    /\ ndelivery = "login raises"
    /\ noutcome # None
    /\ Val(noutcome).ret = FALSE
    /\ Val(noutcome).connection = "SMTP_SSL"

\* the kinds of config file the claim calls missing or malformed
MissingOrMalformed == {"missing", "unreadable", "invalid json", "not an object"}

GivesNumber(field) == field.present /\ field.value # None

\* ticker.info was read in the current attempt and gave a dict
InfoDelivered == tickerInfo # None /\ ~Val(tickerInfo).raises

\* C21: the metadata is consulted only in an attempt whose three windows
\* all yielded nothing, never while a window is still to be queried or after
\* one succeeded; and whenever the metadata read gives no number in
\* currentPrice but one in regularMarketPrice, that attempt returns the
\* regularMarketPrice number.
C21_RegularMarketFallback ==
    /\ (infoRead => Len(windows) = Len(Periods))
    /\ (fpc = "info" => Len(windows) = Len(Periods) /\ ~infoRead)
    /\ (InfoDelivered
        /\ ~GivesNumber(Val(tickerInfo).currentPrice)
        /\ GivesNumber(Val(tickerInfo).regularMarketPrice)
        => /\ fpc = "returned"
           /\ fresult = Val(tickerInfo).regularMarketPrice.value)

(***************************************************************************)
(* Properties of the scraping-first branch of get_stock_price (SpecFetch)  *)
(***************************************************************************)
ScrapingFirst == use_web_scraping /\ web_scraper

\* the scraper call of this get_stock_price call returned a price
ScraperYielded == scraped # << >> /\ scraped[1] # None

\* C22: in scraping-first mode the scraper is asked before anything else,
\* and when it yields a price the call returns that price at once: no
\* window and no metadata of the quote API is read, no attempt is counted
\* and no backoff sleep occurs.  In API-only mode the scraper is never
\* contacted.
C22_ScraperPriceReturnedAtOnce ==
    /\ (ScrapingFirst /\ fpc \notin {"idle", "scrape"} => scraped # << >>)
    /\ (ScraperYielded
        => /\ fpc = "returned"
           /\ fresult = scraped[1]
           /\ windows = << >>
           /\ ~infoRead
           /\ attempt = 0
           /\ sleeps = << >>)
    /\ (~ScrapingFirst => scraped = << >> /\ ~scraperCalled)

(***************************************************************************)
(* Properties of the order of get_multiple_prices (SpecBatch)              *)
(***************************************************************************)
\* the timeline of a call that fetches the symbols l[i..] one after the
\* other, with a pacing sleep between two fetches
RECURSIVE PacedFrom(_, _)
PacedFrom(l, i) ==
    IF i > Len(l) THEN << >>
    ELSE << Started(l[i]), Finished(l[i]) >>
         \o (IF i < Len(l) THEN << Slept(PacingSeconds) >> ELSE << >>)
         \o PacedFrom(l, i + 1)

IsPrefix(p, q) == Len(p) <= Len(q) /\ SubSeq(q, 1, Len(p)) = p

\* C23: get_multiple_prices is sequential and paced: the timeline of a call
\* is at every moment a prefix of "start s1, finish s1, sleep 3, start s2,
\* finish s2, sleep 3, ..., start sN, finish sN" over the symbols in input
\* order; while a get_stock_price call is running (its retries and backoff
\* sleeps included) the last event is the start of that symbol, so no other
\* fetch has started; and a call that has returned has the whole timeline,
\* which ends with the finish of the last fetch and no sleep.
C23_SequentialAndPaced ==
    /\ IsPrefix(timeline, PacedFrom(symbols, 1))
    /\ (fpc # "idle"
        => /\ timeline # << >>
           /\ timeline[Len(timeline)] = Started(symbols[bidx])
           /\ fsymbol = symbols[bidx])
    /\ (bpc = "fetch" /\ bidx > 1
        => timeline[Len(timeline)] = Slept(PacingSeconds))
    /\ (bpc = "returned" => timeline = PacedFrom(symbols, 1))

\* two symbols were fetched, the second after backoff sleeps
C23_Witness ==
    /\ bpc = "returned"
    /\ Len(symbols) = 2
    /\ sleeps # << >>
    /\ timeline = << Started(symbols[1]), Finished(symbols[1]), Slept(PacingSeconds),
                     Started(symbols[2]), Finished(symbols[2]) >>

(***************************************************************************)
(* Properties of the order of a check cycle (SpecCycle)                    *)
(***************************************************************************)
\* every tracked symbol is a key of the map m
HasAllTracked(m) ==
    \A i \in DOMAIN get_tracked_symbols(stocks) :
        get_tracked_symbols(stocks)[i] \in DOMAIN m

\* where a cycle with symbols to track stands
CycleOrder ==
    /\ Len(alertArgs) <= 1
    /\ (cpc = "fetching" => ~checked /\ alertArgs = << >> /\ alerted = None)
    /\ (cpc = "cached"
        => /\ bpc = "returned"
           /\ Len(fetched) = Len(symbols)
           /\ symbols = get_tracked_symbols(stocks)
           /\ last_prices = bprices
           /\ HasAllTracked(last_prices)
           /\ ~checked
           /\ alertArgs = << >>)
    /\ (cpc = "done" /\ get_tracked_symbols(stocks) # << >>
        => /\ checked
           /\ prices = last_prices
           /\ violations = check_thresholds(stocks, last_prices)
           /\ alertArgs = IF violations # << >> THEN << violations >> ELSE << >>
           /\ (alerted # None <=> violations # << >>))

\* the cache changes only in the step that follows the whole fetch, and
\* send_alert is called only in the step that follows the store
CycleSteps ==
    /\ (last_prices' # last_prices
        => cpc = "fetching" /\ bpc = "returned" /\ cpc' = "cached"
           /\ last_prices' = bprices)
    /\ (checked' /\ ~checked => cpc = "cached" /\ prices' = last_prices)
    /\ (alertArgs' # alertArgs /\ alertArgs' # << >>
        => cpc = "cached" /\ alertArgs' = << violations' >>)

\* C24: a check cycle fetches all tracked symbols, then replaces the cached
\* map in one step, then evaluates the thresholds on that same map, then
\* calls the notifier; send_alert is called at most once per cycle, if and
\* only if the violation list is non-empty, and with exactly the list
\* check_thresholds returned.
C24_CycleOrder == [](CycleOrder) /\ [][CycleSteps]_vars

\* a cycle over two symbols has ended after one send_alert call
C24_Witness ==
    /\ cpc = "done"
    /\ Len(symbols) = 2
    /\ violations # << >>
    /\ alertArgs = << violations >>
    /\ last_prices = bprices

(***************************************************************************)
(* Properties of send_daily_summary (SpecRun)                              *)
(***************************************************************************)
\* dict.get of the map m
MapGet(m, symbol) == IF symbol \in DOMAIN m THEN m[symbol] ELSE None

\* what the latest send_daily_summary call read and handed over
SummaryReport ==
    /\ Len(summaryCalls) <= 1
    /\ (dpc = "read" => sprices # << >> /\ summaryCalls = << >>)
    /\ (sprices = << >> => summaryCalls = << >> /\ dpc = "idle")
    /\ (dpc = "idle" /\ sprices # << >> => Len(summaryCalls) = 1)
    /\ (summaryCalls # << >>
        => LET data == summaryCalls[1].stocks_data
           IN /\ Len(data) = Len(stocks)
              /\ \A i \in DOMAIN data :
                   /\ data[i].symbol = stocks[i].symbol
                   /\ data[i].price = MapGet(sprices, stocks[i].symbol))

\* a step of send_daily_summary
SummaryStep == dpc' # dpc \/ sprices' # sprices \/ summaryCalls' # summaryCalls

\* a summary step starts no fetch and leaves the cache alone; the map it
\* reads is the cache of that moment, and the cache is only ever written
\* by the store step of a check cycle, with the map that cycle fetched
SummaryFrame ==
    /\ (SummaryStep => UNCHANGED << last_prices, fetchVars, batchVars, cpc >>)
    /\ (SummaryStep /\ dpc = "idle" => sprices' = last_prices)
    /\ (last_prices' # last_prices
        => cpc = "fetching" /\ cpc' = "cached" /\ last_prices' = bprices)

\* C25: send_daily_summary never fetches prices and never modifies the
\* cached map; it hands a summary to the notifier if and only if the cache
\* it read is non-empty, and the price it reports for each configured
\* instrument is the one the latest store of a check cycle put in the cache
\* (None when that cycle had no price for it); with an empty cache nothing
\* is sent.
C25_SummaryFromCache == [](SummaryReport) /\ [][SummaryFrame]_vars

\* a summary that reports one price and one None, taken from the cache
C25_Witness ==
    /\ dpc = "idle"
    /\ Len(summaryCalls) = 1
    /\ sprices = last_prices
    /\ \E i \in DOMAIN summaryCalls[1].stocks_data :
         summaryCalls[1].stocks_data[i].price = None
    /\ \E i \in DOMAIN summaryCalls[1].stocks_data :
         summaryCalls[1].stocks_data[i].price # None

(***************************************************************************)
(* Properties of a summary that overlaps a check cycle (SpecRun)           *)
(***************************************************************************)
TrackedSet == { get_tracked_symbols(stocks)[i] : i \in DOMAIN get_tracked_symbols(stocks) }

\* the map of a whole batch over the tracked symbols
FullMap(m) == DOMAIN m = TrackedSet

\* what the summary has read is the cache as it was before any cycle
\* stored (empty) or the map of a whole batch; once a cycle has stored,
\* the cache is the whole map that cycle fetched
SummaryReadsWhole ==
    /\ (sprices = << >> \/ FullMap(sprices))
    /\ (summaryCalls # << >>
        => \A i \in DOMAIN stocks :
             HasSymbol(stocks[i])
             => /\ stocks[i].symbol \in DOMAIN sprices
                /\ summaryCalls[1].stocks_data[i].price = sprices[stocks[i].symbol])
    /\ (cpc = "cached"
        => bpc = "returned" /\ FullMap(bprices) /\ last_prices = bprices)

\* the summary reads the cache in one step, and the cache goes from the
\* previous cycle's map to the current cycle's map in one step
SummaryReadIsOneStep ==
    /\ (sprices' # sprices => dpc = "idle" /\ sprices' = last_prices)
    /\ (last_prices' # last_prices
        => bpc = "returned" /\ last_prices' = bprices /\ FullMap(bprices))

\* C26: however a daily summary and a check cycle interleave, the summary
\* reads a whole price map: the map of the previous cycle that stored one
\* (or the empty initial cache) or the whole map of the current cycle,
\* never one in which only some of the current cycle's symbols are filled
\* in.
C26_SummaryReadsWholeMap == [](SummaryReadsWhole) /\ [][SummaryReadIsOneStep]_vars

\* the summary has read the previous cycle's map while the current cycle
\* has fetched the first of its two symbols only
C26_Witness ==
    /\ cpc = "fetching"
    /\ Len(symbols) = 2
    /\ bpc = "fetch"
    /\ DOMAIN bprices = {symbols[1]}
    /\ dpc = "read"
    /\ FullMap(sprices)
    /\ sprices = last_prices
    /\ sprices # bprices

(***************************************************************************)
(* Properties of the alert status of the summaries (SpecStatus)            *)
(***************************************************************************)
\* the symbols check_thresholds returned a violation for
ViolatedSymbols == { violations[k].symbol : k \in DOMAIN violations }

HasPriceNow(stock_config) == has_price(prices, stock_config.symbol)

\* the instruments _display_price_summary prints a line for, in order
Priced == SelectSeq(stocks, HasPriceNow)

\* C27: for the same instruments and prices, the daily-summary mail marks
\* an instrument [ALERT] exactly when check_thresholds returned a violation
\* for it, and so does the console summary, which prints one line per
\* instrument with a price, in order; an instrument without a price is
\* N/A in the mail, has no line on the console and is never marked [ALERT].
C27_StatusAgrees ==
    /\ (checked /\ htmlLines # None
        => /\ Len(Val(htmlLines)) = Len(stocks)
           /\ \A i \in DOMAIN stocks :
                /\ (Val(htmlLines)[i].status = "[ALERT]"
                    <=> stocks[i].symbol \in ViolatedSymbols)
                /\ (Val(htmlLines)[i].class = "stock-alert"
                    <=> stocks[i].symbol \in ViolatedSymbols)
                /\ (~HasPriceNow(stocks[i]) => Val(htmlLines)[i].status = "N/A"))
    /\ (checked /\ displayed # None
        => /\ Len(Val(displayed)) = Len(Priced)
           /\ \A k \in DOMAIN Priced :
                /\ Val(displayed)[k].display_name = display_name(Priced[k])
                /\ (Val(displayed)[k].status = "[ALERT]"
                    <=> Priced[k].symbol \in ViolatedSymbols))

\* both summaries mark an instrument [ALERT], the mail one whose price
\* equals its upper threshold
C27_Witness ==
    /\ checked
    /\ htmlLines # None
    /\ displayed # None
    /\ violations # << >>
    /\ \E i \in DOMAIN stocks :
         /\ Val(htmlLines)[i].status = "[ALERT]"
         /\ prices[stocks[i].symbol] = stocks[i].upper_threshold
    /\ \E k \in DOMAIN Val(displayed) : Val(displayed)[k].status = "[ALERT]"

(***************************************************************************)
(* Properties of the sign of the scraper's prices                          *)
(***************************************************************************)

\* the page texts with a minus sign, a plus sign or a bracket in front
SignedTexts == { << c >> \o t : c \in {"-", "+", "("}, t \in PageTexts }

\* the parsed value, when there is one, is a decimal that is not negative
NotNegative(price) == price = None \/ Val(price).m >= 0

\* the value is a price above 0
Positive(price) == price # None /\ Val(price).m > 0

\* a sign in front of a text changes nothing of what it parses to
SignIgnored ==
    \A t \in SignedTexts :
        /\ NotNegative(extract_price(t))
        /\ extract_price(t) = extract_price(Tail(t))

\* C28: every price returned by the scraper is strictly positive:
\* _extract_price never returns a negative number (a sign in front of the
\* digits is not part of the match, the text parses as without it), a
\* source whose page gives a text parsing to 0 and nothing else yields
\* None, and WebScraper.get_stock_price returns either None or a value
\* above 0.
C28_ScraperPricePositive ==
    /\ SignIgnored
    /\ \A i \in DOMAIN contacted :
         contacted[i].price = None \/ Positive(contacted[i].price)
    /\ (spc = "returned" => sresult = None \/ Positive(sresult))

C28_Witness ==
    /\ spc = "returned"
    /\ Len(contacted) = 2
    /\ contacted[1].zero
    /\ contacted[1].price = None
    /\ contacted[2].zero
    /\ contacted[2].price = Some(Decimal(15, 1))
    /\ sresult = Some(Decimal(15, 1))


====
